---- MODULE Spec2Model ----
(***************************************************************************)
(* Model of the video-downloader backend: the URL validator, the HTTP      *)
(* routes of routes/video.js (requests that reached the router), the       *)
(* in-memory Job Store, the JobQueue of services/jobQueue.js and the stage *)
(* sequence of downloadAndProcessVideo in services/videoProcessor.js.      *)
(*                                                                         *)
(* Node runs one event-loop task at a time: an action is one task (an HTTP *)
(* handler, a timer callback, a child-process event, a finished fs call)   *)
(* together with all the promise continuations it triggers.                *)
(***************************************************************************)
EXTENDS Integers, Sequences, FiniteSets, TLC

VARIABLES
  jobs,            \* the jobs Map of routes/video.js
  nextId,          \* the next fresh job id
  queues,          \* JobQueue.queues
  isProcessing,    \* JobQueue.isProcessing
  running,         \* the processJob calls awaiting downloadAndProcessVideo
  timers,          \* the pending setTimeout callbacks of the retry branch
  zombies,         \* jobs with a yt-dlp child that outlived its promise
  ev,              \* the HTTP response of the step just taken, if any
  invocations,     \* history: calls of downloadAndProcessVideo per job
  seenProcessing,  \* history: jobs whose stored status has been processing
  enqOrder,        \* history: jobs added and not yet started, in add() order
  disk,            \* the entries of temp/downloads and temp/processing
  API_KEYS,        \* the key set of middleware/auth.js
  env,             \* process.env: NODE_ENV and SKIP_AUTH
  req,             \* the credentials of the last request under /api/video/
  tree,            \* the entries of the temp directory, as a tree
  now,             \* Date.now(), in milliseconds since the server started
  hook,            \* the state of the front end's useVideoDownloader hook
  service          \* the cleanup service: isRunning, intervalId, its timers

vars == <<jobs, nextId, queues, isProcessing, running, timers, zombies, ev,
          invocations, seenProcessing, enqOrder, disk, API_KEYS, env, req, tree, now, hook, service>>

(* ------------------------------ bounds -------------------------------- *)

\* Number of download jobs that are ever submitted (uuidv4 gives fresh ids)
\* under Spec and RetrySpec.
MaxJobs == 2

\* The same under QueueSpec.
MaxQueueJobs == 3

\* The counter of Media Processor invocations per job saturates here.
MaxInvocations == 4

\* Entries a directory of temp/ holds when the sweeper finds it.
MaxEntries == 1

JobIds == 1..(IF MaxJobs >= MaxQueueJobs THEN MaxJobs ELSE MaxQueueJobs)

Undef == "undefined"

(* ------------------------------ strings ------------------------------- *)

Min(a, b) == IF a <= b THEN a ELSE b

RECURSIVE Pow2(_)
Pow2(n) == IF n <= 0 THEN 1 ELSE 2 * Pow2(n - 1)

CharAt(s, i) == SubSeq(s, i, i)

\* s.substring(i-1).startsWith(t)
StartsAt(s, i, t) ==
  /\ i >= 1
  /\ i + Len(t) - 1 <= Len(s)
  /\ SubSeq(s, i, i + Len(t) - 1) = t

startsWith(s, t) == StartsAt(s, 1, t)

\* String.prototype.includes
includes(s, t) == \E i \in 1..(Len(s) + 1) : StartsAt(s, i, t)

UpperChars == "ABCDEFGHIJKLMNOPQRSTUVWXYZ"
LowerChars == "abcdefghijklmnopqrstuvwxyz"
DigitChars == "0123456789"

InChars(c, chars) == \E i \in 1..Len(chars) : CharAt(chars, i) = c

toLowerChar(c) ==
  IF InChars(c, UpperChars)
  THEN CharAt(LowerChars, CHOOSE i \in 1..Len(UpperChars) : CharAt(UpperChars, i) = c)
  ELSE c

RECURSIVE toLowerFrom(_, _)
toLowerFrom(s, i) ==
  IF i > Len(s) THEN "" ELSE toLowerChar(CharAt(s, i)) \o toLowerFrom(s, i + 1)

\* String.prototype.toLowerCase
toLowerCase(s) == toLowerFrom(s, 1)

(* ------------------------- regular expressions ------------------------ *)
(* A pattern of SUPPORTED_PLATFORMS is a sequence of elements:             *)
(*   "scheme"  (?:https?:\/\/)?      "optlit"  (?:<s>)?                    *)
(*   "lit"     the literal <s>       "plus"    <class s>+                  *)
(*   "any"     .*                                                          *)
(* All patterns carry the i flag: they are matched against the lower-cased *)
(* subject, literals being lower case and classes closed under case.       *)

Scheme     == [t |-> "scheme", s |-> ""]
OptLit(x)  == [t |-> "optlit", s |-> x]
Lit(x)     == [t |-> "lit", s |-> x]
Plus(cls)  == [t |-> "plus", s |-> cls]
AnyStar    == [t |-> "any", s |-> ""]

\* Character classes \w, [\w.-], [\w-], \d on a lower-cased subject.
InClass(c, cls) ==
  CASE cls = "w"   -> InChars(c, LowerChars) \/ InChars(c, DigitChars) \/ c = "_"
    [] cls = "w.-" -> InChars(c, LowerChars) \/ InChars(c, DigitChars) \/ c \in {"_", ".", "-"}
    [] cls = "w-"  -> InChars(c, LowerChars) \/ InChars(c, DigitChars) \/ c \in {"_", "-"}
    [] cls = "d"   -> InChars(c, DigitChars)

\* Length of the longest run of class characters of s starting at i.
RECURSIVE RunLen(_, _, _)
RunLen(s, i, cls) ==
  IF i <= Len(s) /\ InClass(CharAt(s, i), cls) THEN 1 + RunLen(s, i + 1, cls) ELSE 0

\* Elements k.. of pattern p match s at position i (backtracking search).
RECURSIVE MatchFrom(_, _, _, _)
MatchFrom(p, k, s, i) ==
  IF k > Len(p) THEN TRUE
  ELSE LET e == p[k] IN
    CASE e.t = "lit" ->
           StartsAt(s, i, e.s) /\ MatchFrom(p, k + 1, s, i + Len(e.s))
      [] e.t = "optlit" ->
           \/ StartsAt(s, i, e.s) /\ MatchFrom(p, k + 1, s, i + Len(e.s))
           \/ MatchFrom(p, k + 1, s, i)
      [] e.t = "scheme" ->
           \/ StartsAt(s, i, "http://") /\ MatchFrom(p, k + 1, s, i + 7)
           \/ StartsAt(s, i, "https://") /\ MatchFrom(p, k + 1, s, i + 8)
           \/ MatchFrom(p, k + 1, s, i)
      [] e.t = "plus" ->
           \E n \in 1..RunLen(s, i, e.s) : MatchFrom(p, k + 1, s, i + n)
      [] e.t = "any" ->
           \E n \in 0..(Len(s) - i + 1) : MatchFrom(p, k + 1, s, i + n)

\* RegExp.prototype.test for an unanchored pattern with the i flag.
test(p, url) ==
  LET s == toLowerCase(url) IN \E i \in 1..(Len(s) + 1) : MatchFrom(p, 1, s, i)

(* --------------------------- urlValidator.js -------------------------- *)

SUPPORTED_PLATFORMS == <<
  [name |-> "TikTok",
   domains |-> <<"tiktok.com", "vm.tiktok.com">>,
   patterns |-> <<
     <<Scheme, OptLit("www."), Lit("tiktok.com/@"), Plus("w.-"), Lit("/video/"), Plus("d")>>,
     <<Scheme, Lit("vm.tiktok.com/"), Plus("w")>> >>],
  [name |-> "Instagram",
   domains |-> <<"instagram.com">>,
   patterns |-> <<
     <<Scheme, OptLit("www."), Lit("instagram.com/p/"), Plus("w-")>>,
     <<Scheme, OptLit("www."), Lit("instagram.com/reel/"), Plus("w-")>>,
     <<Scheme, OptLit("www."), Lit("instagram.com/stories/"), Plus("w.-"), Lit("/"), Plus("d")>> >>],
  [name |-> "YouTube",
   domains |-> <<"youtube.com", "youtu.be", "m.youtube.com">>,
   patterns |-> <<
     <<Scheme, OptLit("www."), Lit("youtube.com/watch?v="), Plus("w-")>>,
     <<Scheme, OptLit("www."), Lit("youtube.com/embed/"), Plus("w-")>>,
     <<Scheme, Lit("youtu.be/"), Plus("w-")>>,
     <<Scheme, OptLit("www."), Lit("youtube.com/v/"), Plus("w-")>> >>],
  [name |-> "Twitter/X",
   domains |-> <<"twitter.com", "x.com", "mobile.twitter.com">>,
   patterns |-> <<
     <<Scheme, OptLit("www."), Lit("twitter.com/"), Plus("w"), Lit("/status/"), Plus("d")>>,
     <<Scheme, OptLit("www."), Lit("x.com/"), Plus("w"), Lit("/status/"), Plus("d")>>,
     <<Scheme, Lit("mobile.twitter.com/"), Plus("w"), Lit("/status/"), Plus("d")>> >>],
  [name |-> "Facebook",
   domains |-> <<"facebook.com", "fb.watch", "m.facebook.com">>,
   patterns |-> <<
     <<Scheme, OptLit("www."), Lit("facebook.com/"), AnyStar, Lit("/videos/"), Plus("d")>>,
     <<Scheme, OptLit("www."), Lit("facebook.com/watch/?v="), Plus("d")>>,
     <<Scheme, Lit("fb.watch/"), Plus("w-")>>,
     <<Scheme, OptLit("www."), Lit("facebook.com/"), Plus("w.-"), Lit("/posts/"), Plus("d")>> >>],
  [name |-> "Snapchat",
   domains |-> <<"snapchat.com">>,
   patterns |-> <<
     <<Scheme, OptLit("www."), Lit("snapchat.com/add/"), Plus("w.-")>>,
     <<Scheme, Lit("story.snapchat.com/p/"), Plus("w-")>> >>]
>>

\* platform.domains.some(domain => url.toLowerCase().includes(domain))
hasValidDomain(platform, url) ==
  \E d \in 1..Len(platform.domains) : includes(toLowerCase(url), platform.domains[d])

\* platform.patterns.some(pattern => pattern.test(url))
matchesPattern(platform, url) ==
  \E k \in 1..Len(platform.patterns) : test(platform.patterns[k], url)

\* new URL(s) of the WHATWG parser, for the special schemes http and https:
\* it throws when no such scheme leads the string or when the host (what
\* follows the scheme's slashes, up to the next "/", "?" or "#") is empty or
\* holds a forbidden host code point.
HostEnd(s, i) ==
  LET stops == {k \in i..Len(s) : CharAt(s, k) \in {"/", "?", "#"}}
  IN  IF stops = {} THEN Len(s) + 1
      ELSE CHOOSE k \in stops : \A m \in stops : k <= m

RECURSIVE SkipSlashes(_, _)
SkipSlashes(s, i) ==
  IF i <= Len(s) /\ CharAt(s, i) = "/" THEN SkipSlashes(s, i + 1) ELSE i

UrlParses(s) ==
  LET l == toLowerCase(s)
      afterScheme == IF startsWith(l, "https:") THEN 7
                     ELSE IF startsWith(l, "http:") THEN 6 ELSE 0
      h0 == SkipSlashes(s, afterScheme)
      h1 == HostEnd(s, h0)
  IN  /\ afterScheme > 0
      /\ h1 > h0
      /\ \A k \in h0..(h1 - 1) : CharAt(s, k) \notin {" ", "<", ">", "^", "|"}

validateUrlMissingPattern(url) ==
  /\ url # Undef /\ url # ""
  /\ UrlParses(IF startsWith(url, "http") THEN url ELSE "https://" \o url)
  /\ \E p \in 1..Len(SUPPORTED_PLATFORMS) : hasValidDomain(SUPPORTED_PLATFORMS[p], url)

validateUrl(url) ==
  /\ url # Undef /\ url # ""
  /\ UrlParses(IF startsWith(url, "http") THEN url ELSE "https://" \o url)
  /\ \E p \in 1..Len(SUPPORTED_PLATFORMS) :
       /\ hasValidDomain(SUPPORTED_PLATFORMS[p], url)
       /\ matchesPattern(SUPPORTED_PLATFORMS[p], url)

\* detectPlatform without the pattern check.
detectPlatformDomainOnly(url) ==
  IF url = Undef \/ url = "" THEN "unknown"
  ELSE LET hits == {p \in 1..Len(SUPPORTED_PLATFORMS) :
                      hasValidDomain(SUPPORTED_PLATFORMS[p], url)}
       IN  IF hits = {} THEN "unknown"
           ELSE SUPPORTED_PLATFORMS[CHOOSE p \in hits : \A q \in hits : p <= q].name

\* detectPlatform that goes on to the last platform of the table.
detectPlatformLastMatch(url) ==
  IF url = Undef \/ url = "" THEN "unknown"
  ELSE LET hits == {p \in 1..Len(SUPPORTED_PLATFORMS) :
                      /\ hasValidDomain(SUPPORTED_PLATFORMS[p], url)
                      /\ matchesPattern(SUPPORTED_PLATFORMS[p], url)}
       IN  IF hits = {} THEN "unknown"
           ELSE SUPPORTED_PLATFORMS[CHOOSE p \in hits : \A q \in hits : p >= q].name

detectPlatform(url) ==
  IF url = Undef \/ url = "" THEN "unknown"
  ELSE LET hits == {p \in 1..Len(SUPPORTED_PLATFORMS) :
                      /\ hasValidDomain(SUPPORTED_PLATFORMS[p], url)
                      /\ matchesPattern(SUPPORTED_PLATFORMS[p], url)}
       IN  IF hits = {} THEN "unknown"
           ELSE SUPPORTED_PLATFORMS[CHOOSE p \in hits : \A q \in hits : p <= q].name

\* The URLs the matcher is called with: a prefix, a host and a path.
UrlPrefixes == {"https://www.", ""}

UrlHosts == {"tiktok.com", "TikTok.com", "instagram.com", "youtube.com", "youtu.be",
             "twitter.com", "x.com", "facebook.com", "fb.watch", "snapchat.com",
             "dropbox.com"}

UrlPaths == {"/foo", "/@user/video/123", "/@x.com/video/123", "/p/abc",
             "/watch?v=abc", "/user/status/1"}

Urls == {p \o h \o q : p \in UrlPrefixes, h \in UrlHosts, q \in UrlPaths}

\* detectPlatform of each of them, computed once.
detected == [url \in Urls |-> detectPlatform(url)]

\* More URLs a caller passes: two platforms in one URL, in either order,
\* a scheme without its colon, a blank in the host, capitals, no URL.
OddUrls == {"https://www.tiktok.com/@a/video/1?u=x.com/u/status/1",
            "https://x.com/u/status/1?u=tiktok.com/@a/video/1",
            "http//tiktok.com/@user/video/123",
            "https:// youtu.be/abc",
            "HTTPS://WWW.YOUTUBE.COM/WATCH?V=ABC",
            "youtu.be/abc",
            ""}

MatchUrls == Urls \cup OddUrls

\* detectPlatform and validateUrl of each of them, computed once.
matched == [url \in MatchUrls |->
              [platform |-> detectPlatform(url), valid |-> validateUrl(url)]]

(* --------------- App.tsx: the useVideoDownloader hook ------------------ *)

\* platformPatterns of the hook: one regular expression per platform, no
\* flags, each a plain substring test; the first that matches wins.
platformPatterns == <<
  [names |-> {"tiktok.com"}, name |-> "TikTok"],
  [names |-> {"instagram.com"}, name |-> "Instagram"],
  [names |-> {"youtube.com", "youtu.be"}, name |-> "YouTube"],
  [names |-> {"twitter.com", "x.com"}, name |-> "Twitter/X"],
  [names |-> {"facebook.com"}, name |-> "Facebook"],
  [names |-> {"snapchat.com"}, name |-> "Snapchat"] >>

\* detectPlatform of the hook.
hookDetectPlatform(url) ==
  LET hits == {p \in 1..Len(platformPatterns) :
                 \E n \in platformPatterns[p].names : includes(url, n)}
  IN  IF hits = {} THEN "Unknown"
      ELSE platformPatterns[CHOOSE p \in hits : \A q \in hits : p <= q].name

\* validateUrl of the hook: new URL(url), nothing prepended, then the
\* platform test. The URLs it is called with here have the scheme http or
\* https or none.
hookValidateUrl(url) == UrlParses(url) /\ hookDetectPlatform(url) # "Unknown"

\* validateUrl of the hook on each URL, computed once.
hookValid == [url \in Urls |-> hookValidateUrl(url)]

(* ------------------- express-validator chains (video.js) -------------- *)

\* validator.js isURL with protocols http/https and its defaults (protocol
\* optional, host and top-level domain required, no blanks or angle brackets).
isURL(s) ==
  LET l == toLowerCase(s)
      hasProto == includes(l, "://")
      h0 == IF startsWith(l, "https://") THEN 9
            ELSE IF startsWith(l, "http://") THEN 8 ELSE 1
      h1 == HostEnd(l, h0)
      host == SubSeq(l, h0, h1 - 1)
  IN  /\ s # Undef /\ s # ""
      /\ ~includes(s, " ") /\ ~includes(s, "<") /\ ~includes(s, ">")
      /\ hasProto => (startsWith(l, "https://") \/ startsWith(l, "http://"))
      /\ host # ""
      /\ includes(host, ".")
      /\ CharAt(host, Len(host)) # "."
      /\ CharAt(host, 1) # "."

Qualities == {"360p", "720p", "1080p", "original", "best"}
Formats == {"mp4", "webm", "avi"}
\* JSON booleans are written "true" and "false".
Booleans == {"true", "false"}

\* body('url').isURL(...).custom(validateUrl)
urlFieldOk(body) == isURL(body.url) /\ validateUrl(body.url)

\* POST /extract: validationResult(req).isEmpty()
extractValidationOk(body) == urlFieldOk(body)

\* POST /download: validationResult(req).isEmpty()
downloadValidationOk(body) ==
  /\ urlFieldOk(body)
  /\ body.quality = Undef \/ body.quality \in Qualities
  /\ body.removeWatermark = Undef \/ body.removeWatermark \in Booleans
  /\ body.format = Undef \/ body.format \in Formats

\* The request bodies the clients send.
Bodies == <<
  [url |-> "https://www.tiktok.com/@user/video/123", quality |-> "720p",
   removeWatermark |-> "true", format |-> "mp4"],
  [url |-> "https://youtu.be/abc", quality |-> Undef,
   removeWatermark |-> "false", format |-> Undef],
  [url |-> "https://www.tiktok.com/foo", quality |-> "720p",
   removeWatermark |-> "true", format |-> "mp4"],
  [url |-> "not a url", quality |-> Undef,
   removeWatermark |-> Undef, format |-> Undef],
  [url |-> "https://youtu.be/abc", quality |-> "4k",
   removeWatermark |-> "false", format |-> "mp4"],
  [url |-> "https://youtu.be/abc", quality |-> "best",
   removeWatermark |-> "maybe", format |-> "mkv"]
>>

BodyIds == 1..Len(Bodies)

\* The validators' verdicts and the detected platform of each body, computed
\* once.
extractValid == [b \in BodyIds |-> extractValidationOk(Bodies[b])]
downloadValid == [b \in BodyIds |-> downloadValidationOk(Bodies[b])]
platformOf == [b \in BodyIds |-> detectPlatform(Bodies[b].url)]

(* ------------------------------ Job Store ------------------------------ *)

\* The filesize map of a list without formats: no tier has a key.
NoSizes == [q \in {} |-> 0]

\* useState(false), useState(null), useState(null): the hook as mounted.
NoHook == [isLoading |-> FALSE, error |-> Undef, videoInfo |-> Undef]

\* The CleanupService as constructed: not running, no interval registered.
\* intervalId 0 stands for null; registered are the setInterval timers
\* not cleared yet, each with the time it is due next.
NoService == [isRunning |-> FALSE, intervalId |-> 0, registered |-> {},
              nextTimer |-> 1, startedAt |-> 0]

\* What a pass over the temp tree logs (the entries deleted by age in each
\* directory, the empty directories removed) and the faults it met.
NoSweep == [downloadsDeleted |-> 0, processingDeleted |-> 0, pruned |-> 0,
            stuck |-> {}, rmdirOk |-> TRUE, missing |-> {}]

\* A response body: the names of its fields and, when success is one of
\* them, its value.
NoBody == [success |-> FALSE, fields |-> {}]

NoEv == [op |-> "none", code |-> 0, id |-> 0, status |-> Undef, req |-> 0, exec |-> FALSE,
         url |-> "", body |-> NoBody, stderr |-> "", exit |-> -1, file |-> Undef,
         sweep |-> NoSweep, evicted |-> {}, valid |-> FALSE,
         formats |-> <<>>, qualities |-> <<>>, sizes |-> NoSizes]

\* jobs.has(jobId)
has(store, jobId) == jobId \in DOMAIN store

\* jobs.set(jobId, job)
set(store, jobId, job) == [k \in DOMAIN store \cup {jobId} |-> IF k = jobId THEN job ELSE store[k]]

\* jobs.delete(jobId)
delete(store, jobId) == [k \in DOMAIN store \ {jobId} |-> store[k]]

\* The job entry POST /download creates (updatedAt, clientIP left out).
newJob(jobId, body, platform) ==
  [id |-> jobId,
   url |-> body.url,
   platform |-> platform,
   quality |-> IF body.quality = Undef THEN "best" ELSE body.quality,
   removeWatermark |-> IF body.removeWatermark = Undef THEN "true" ELSE body.removeWatermark,
   format |-> IF body.format = Undef THEN "mp4" ELSE body.format,
   status |-> "queued",
   createdAt |-> now,
   progress |-> 0,
   error |-> Undef,
   downloadUrl |-> Undef,
   fileSize |-> Undef,
   completedAt |-> Undef,
   failedAt |-> Undef]

\* The program state the queue operations read and write.
St == [jobs |-> jobs, queues |-> queues, isProcessing |-> isProcessing,
       running |-> running, timers |-> timers]

Commit(S) ==
  /\ jobs' = S.jobs
  /\ queues' = S.queues
  /\ isProcessing' = S.isProcessing
  /\ running' = S.running
  /\ timers' = S.timers

\* onProgress(progress, message) of processJob, bound to jobId.
onProgress(S, jobId, progress) ==
  IF has(S.jobs, jobId)
  THEN [S EXCEPT !.jobs = set(S.jobs, jobId, [S.jobs[jobId] EXCEPT !.progress = progress])]
  ELSE S

(* ------------------------------ JobQueue ------------------------------- *)

QueueNames == {"processVideo"}

\* processJob up to its await of downloadAndProcessVideo, which itself runs
\* up to its await of fs.mkdir.
processJobNoStatus(S, queueName, job) ==
  LET jobId == job.data.jobId
      j1 == [job EXCEPT !.attempt = job.attempt + 1, !.status = "processing"]
  IN  [S EXCEPT
         !.running = S.running \cup {[job |-> j1, queueName |-> queueName,
                                     stage |-> "mkdir", err |-> Undef, size |-> Undef,
                                     container |-> Undef,
                                     qualityFormat |-> Undef]}]

\* processJob that writes a record for the job when the store has none.
processJobRecreating(S, queueName, job) ==
  LET jobId == job.data.jobId
      j1 == [job EXCEPT !.attempt = job.attempt + 1, !.status = "processing"]
      blank == [id |-> jobId, url |-> job.data.url, platform |-> job.data.platform,
                quality |-> job.data.quality,
                removeWatermark |-> job.data.removeWatermark,
                format |-> job.data.format, status |-> "queued", createdAt |-> 0,
                progress |-> 0, error |-> Undef, downloadUrl |-> Undef,
                fileSize |-> Undef, completedAt |-> Undef, failedAt |-> Undef]
      jobData == IF has(S.jobs, jobId) THEN S.jobs[jobId] ELSE blank
      S1 == [S EXCEPT
               !.jobs = set(S.jobs, jobId,
                            [jobData EXCEPT !.status = "processing", !.progress = 5])]
  IN  [S1 EXCEPT
         !.running = S1.running \cup {[job |-> j1, queueName |-> queueName,
                                      stage |-> "mkdir", err |-> Undef, size |-> Undef,
                                      container |-> Undef,
                                      qualityFormat |-> Undef]}]

processJob(S, queueName, job) ==
  LET jobId == job.data.jobId
      j1 == [job EXCEPT !.attempt = job.attempt + 1, !.status = "processing"]
      S1 == IF has(S.jobs, jobId)
            THEN [S EXCEPT
                    !.jobs = set(S.jobs, jobId,
                                 [S.jobs[jobId] EXCEPT !.status = "processing", !.progress = 5])]
            ELSE S
  IN  [S1 EXCEPT
         !.running = S1.running \cup {[job |-> j1, queueName |-> queueName,
                                      stage |-> "mkdir", err |-> Undef, size |-> Undef,
                                     container |-> Undef,
                                     qualityFormat |-> Undef]}]

\* The while loop of processQueue, from its test to the next await (or to the
\* reset of the flag when the queue is empty).
drainLoopLifo(S, queueName) ==
  LET queue == S.queues[queueName] IN
  IF Len(queue) > 0
  THEN processJob([S EXCEPT !.queues[queueName] = SubSeq(queue, 1, Len(queue) - 1)],
                  queueName, queue[Len(queue)])
  ELSE [S EXCEPT !.isProcessing = FALSE]

drainLoop(S, queueName) ==
  LET queue == S.queues[queueName] IN
  IF Len(queue) > 0
  THEN processJob([S EXCEPT !.queues[queueName] = Tail(queue)], queueName, Head(queue))
  ELSE [S EXCEPT !.isProcessing = FALSE]

processQueueNoFlag(S, queueName) ==
  IF S.isProcessing THEN S
  ELSE IF Len(S.queues[queueName]) = 0
       THEN [S EXCEPT !.isProcessing = FALSE]
       ELSE drainLoop(S, queueName)

processQueue(S, queueName) ==
  IF S.isProcessing THEN S
  ELSE LET S1 == [S EXCEPT !.isProcessing = TRUE] IN
       IF Len(S1.queues[queueName]) = 0
       THEN [S1 EXCEPT !.isProcessing = FALSE]
       ELSE drainLoop(S1, queueName)

\* add() that appends and leaves the start of the drain to a later tick.
addDeferred(S, queueName, data, options) ==
  [S EXCEPT !.queues[queueName] =
     Append(S.queues[queueName],
            [id |-> data.jobId, data |-> data, options |-> options,
             attempt |-> 0, status |-> "waiting"])]

\* add(queueName, data, options); both callers pass every option key, so the
\* spread of options decides job.options.
add(S, queueName, data, options) ==
  LET job == [id |-> data.jobId, data |-> data, options |-> options,
              attempt |-> 0, status |-> "waiting"]
      S1 == [S EXCEPT !.queues[queueName] = Append(S.queues[queueName], job)]
  IN  IF ~S1.isProcessing THEN processQueue(S1, queueName) ELSE S1

\* job.options.backoff?.delay || 5000
DefaultBackoffDelay == 5000

\* The options POST /download passes to jobQueue.add.
DownloadAttempts == 3
DownloadBackoffDelay == 5000

DownloadOptions ==
  [attempts |-> DownloadAttempts,
   backoff |-> [type |-> "exponential", delay |-> DownloadBackoffDelay],
   removeOnComplete |-> 10,
   removeOnFail |-> 5]

\* processJobSettled that surfaces every failure: the error text is stored
\* in the record even when a retry is scheduled.
processJobSettledSurfacing(S, r) ==
  LET job == r.job
      jobId == job.data.jobId
      S0 == [S EXCEPT !.running = S.running \ {r}]
      S1 == IF r.err = Undef
            THEN IF has(S0.jobs, jobId)
                 THEN [S0 EXCEPT !.jobs = set(S0.jobs, jobId,
                         [S0.jobs[jobId] EXCEPT
                            !.status = "completed",
                            !.progress = 100,
                            !.downloadUrl = "/downloads/" \o ToString(jobId) \o "." \o job.data.format,
                            !.fileSize = r.size,
                            !.completedAt = "set"])]
                 ELSE S0
            ELSE LET S2 == IF has(S0.jobs, jobId)
                           THEN [S0 EXCEPT !.jobs = set(S0.jobs, jobId,
                                   [S0.jobs[jobId] EXCEPT !.error = r.err])]
                           ELSE S0
                 IN [S2 EXCEPT !.timers = S2.timers \cup
                       {[data |-> job.data, options |-> job.options,
                         backoffDelay |-> DefaultBackoffDelay]}]
  IN  drainLoop(S1, r.queueName)

\* A settled call whose error leaves processQueue: the loop is given up
\* with the flag as it is.
processJobSettledThrowing(S, r) ==
  IF r.err = Undef THEN processJobSettledSurfacing(S, r)
  ELSE [S EXCEPT !.running = S.running \ {r}]

\* A settled call that returns without going round the loop of
\* processQueue again.
processJobSettledNoDrain(S, r) == [S EXCEPT !.running = S.running \ {r}]

\* processJob after downloadAndProcessVideo settled, then the loop of the
\* processQueue call that awaited it. r is the settled invocation; r.err is
\* Undef on success.
processJobSettled(S, r) ==
  LET job == r.job
      jobId == job.data.jobId
      S0 == [S EXCEPT !.running = S.running \ {r}]
      S1 == IF r.err = Undef
            THEN IF has(S0.jobs, jobId)
                 THEN [S0 EXCEPT !.jobs = set(S0.jobs, jobId,
                         [S0.jobs[jobId] EXCEPT
                            !.status = "completed",
                            !.progress = 100,
                            !.downloadUrl = "/downloads/" \o ToString(jobId) \o "." \o job.data.format,
                            !.fileSize = r.size,
                            !.completedAt = "set"])]
                 ELSE S0
            ELSE IF job.attempt < job.options.attempts
                 THEN LET delay == IF job.options.backoff.delay = 0
                                   THEN DefaultBackoffDelay
                                   ELSE job.options.backoff.delay
                      IN [S0 EXCEPT !.timers = S0.timers \cup
                            {[data |-> job.data, options |-> job.options,
                              backoffDelay |-> delay * Pow2(job.attempt - 1)]}]
                 ELSE IF has(S0.jobs, jobId)
                      THEN [S0 EXCEPT !.jobs = set(S0.jobs, jobId,
                              [S0.jobs[jobId] EXCEPT
                                 !.status = "failed",
                                 !.error = r.err,
                                 !.failedAt = "set"])]
                      ELSE S0
  IN  drainLoop(S1, r.queueName)

(* ------------------- videoProcessor.js: the stages ---------------------- *)
(* A member of running is one processJob call suspended in its await of    *)
(* downloadAndProcessVideo, i.e. one active processQueue loop. stage is    *)
(* the await downloadAndProcessVideo is suspended in:                      *)
(*   "mkdir"      fs.mkdir(processingPath)                                 *)
(*   "fetch"      downloadWithYtDlp (the yt-dlp child is running)          *)
(*   "transform"  processVideoWithFFmpeg (the ffmpeg child is running)     *)
(*   "rename"     fs.rename(rawVideoPath, outputPath)                      *)
(*   "stat"       fs.stat(outputPath)                                      *)
(*   "rm"         fs.rm(processingPath) of the finally block; err holds    *)
(*                the error the call will reject with, Undef if it will    *)
(*                resolve                                                  *)
(* qualityFormat is the --format argument yt-dlp was spawned with.         *)

Replace(S, r, r2) == [S EXCEPT !.running = (S.running \ {r}) \cup {r2}]

\* The catch and finally of downloadAndProcessVideo: the error is rethrown
\* once fs.rm has finished.
Reject(S, r, message) == Replace(S, r, [r EXCEPT !.stage = "rm", !.err = message])

\* removeWatermark || format !== 'mp4'
needsTransform(data) == data.removeWatermark = "true" \/ data.format # "mp4"

\* Percentages yt-dlp prints on stdout (even, so that half of one is whole).
FetchPercents == {50}

\* Math.min(50, parseInt(progressMatch[1]) * 0.5)
fetchProgress(pct) == Min(50, pct \div 2)

\* (time=, Duration:) pairs in seconds that ffmpeg prints on stderr.
TransformTimes == {<<1, 3>>}

\* Math.min(95, 50 + (currentTime / totalTime) * 45)
transformProgress(currentTime, totalTime) == Min(95, 50 + (currentTime * 45) \div totalTime)

\* Text yt-dlp prints on stderr.
StderrTexts == {"ERROR: Private video", "ERROR: Unsupported URL", "WARNING: slow"}

\* More of it: the other classified text, and text that only resembles one.
MoreStderrTexts ==
  StderrTexts \cup {"ERROR: [youtube] abc: Video unavailable", "ERROR: private video",
                    "ERROR: Unsupported url"}

\* The branch of ytDlp.stderr.on('data') a text takes.
stderrClass ==
  [text \in MoreStderrTexts |->
     IF includes(text, "Private video") \/ includes(text, "Video unavailable")
     THEN "private"
     ELSE IF includes(text, "Unsupported URL") THEN "unsupported" ELSE "none"]

Internal == [NoEv EXCEPT !.op = "internal"]

\* getYtDlpQualityFormat without its default case.
getYtDlpQualityFormatNoDefault(quality) ==
  CASE quality = "360p" -> "best[height<=360]"
    [] quality = "720p" -> "best[height<=720]"
    [] quality = "1080p" -> "best[height<=1080]"
    [] quality = "original" -> "best"
    [] OTHER -> Undef

getYtDlpQualityFormat(quality) ==
  CASE quality = "360p" -> "best[height<=360]"
    [] quality = "720p" -> "best[height<=720]"
    [] quality = "1080p" -> "best[height<=1080]"
    [] quality = "original" -> "best"
    [] OTHER -> "best"

\* The quality downloadAndProcessVideo hands on: quality = 'best' by default.
qualityOption(data) == IF data.quality = Undef THEN "best" ELSE data.quality

\* fs.mkdir settles; on success onProgress(10) and yt-dlp is spawned.
MkdirDone(r, ok) ==
  /\ r \in running /\ r.stage = "mkdir"
  /\ Commit(IF ok
            THEN Replace(onProgress(St, r.job.data.jobId, 10), r,
                         [r EXCEPT !.stage = "fetch",
                                   !.qualityFormat =
                                     getYtDlpQualityFormat(qualityOption(r.job.data))])
            ELSE Reject(St, r, "EACCES: permission denied, mkdir"))
  /\ ev' = Internal
  /\ UNCHANGED <<nextId, zombies>>

\* ytDlp.stdout.on('data') with a percentage in the chunk.
FetchStdout(r, pct) ==
  /\ r \in running /\ r.stage = "fetch"
  /\ Commit(onProgress(St, r.job.data.jobId, fetchProgress(pct)))
  /\ ev' = Internal
  /\ UNCHANGED <<nextId, zombies>>

\* A stderr listener that only logs and leaves the verdict to the exit code.
FetchStderrUnclassified(r, text) ==
  /\ r \in running /\ r.stage = "fetch"
  /\ Commit(St)
  /\ zombies' = zombies
  /\ ev' = [Internal EXCEPT !.stderr = text]
  /\ UNCHANGED nextId

\* ytDlp.stderr.on('data'): a classified text rejects the promise at once;
\* the child is not killed and keeps running.
FetchStderr(r, text) ==
  /\ r \in running /\ r.stage = "fetch"
  /\ IF stderrClass[text] = "private"
     THEN /\ Commit(Reject(St, r, "This video is private or unavailable"))
          /\ zombies' = zombies \cup {r.job.data.jobId}
     ELSE IF stderrClass[text] = "unsupported"
     THEN /\ Commit(Reject(St, r, "This URL is not supported"))
          /\ zombies' = zombies \cup {r.job.data.jobId}
     ELSE /\ Commit(St)
          /\ zombies' = zombies
  /\ ev' = [Internal EXCEPT !.stderr = text]
  /\ UNCHANGED nextId

\* ytDlp.on('error'): the child could not be started.
FetchError(r) ==
  /\ r \in running /\ r.stage = "fetch"
  /\ Commit(Reject(St, r, "Failed to start yt-dlp: spawn yt-dlp ENOENT"))
  /\ ev' = Internal
  /\ UNCHANGED <<nextId, zombies>>

\* The extensions yt-dlp gives the file it writes as video.%(ext)s.
Containers == {"mp4", "webm", "mkv"}

\* ytDlp.on('close'); ext is the extension of the output file that was
\* resolved (from the Destination line or the directory scan), Undef when
\* none was. On success the next stage is chosen.
FetchCloseAs(r, code, ext) ==
  /\ r \in running /\ r.stage = "fetch"
  /\ Commit(IF code = 0
            THEN IF ext # Undef
                 THEN IF needsTransform(r.job.data)
                      THEN Replace(onProgress(St, r.job.data.jobId, 60), r,
                                   [r EXCEPT !.stage = "transform", !.container = ext])
                      ELSE Replace(St, r, [r EXCEPT !.stage = "rename", !.container = ext])
                 ELSE Reject(St, r, "Downloaded video file not found")
            ELSE Reject(St, r, "yt-dlp exited with code " \o ToString(code)))
  /\ ev' = [Internal EXCEPT !.exit = code, !.file = IF code = 0 THEN ext ELSE Undef]
  /\ UNCHANGED <<nextId, zombies>>

\* ytDlp.on('close') of a child that wrote video.mp4 (found) or nothing.
FetchClose(r, code, found) == FetchCloseAs(r, code, IF found THEN "mp4" ELSE Undef)

\* ffmpeg.stderr.on('data') with both time= and Duration: in the chunk.
TransformStderr(r, t) ==
  /\ r \in running /\ r.stage = "transform"
  /\ Commit(IF t[2] > 0
            THEN onProgress(St, r.job.data.jobId, transformProgress(t[1], t[2]))
            ELSE St)
  /\ ev' = Internal
  /\ UNCHANGED <<nextId, zombies>>

\* ffmpeg.on('close'); on success onProgress(100) and fs.stat is awaited.
TransformClose(r, code) ==
  /\ r \in running /\ r.stage = "transform"
  /\ Commit(IF code = 0
            THEN Replace(onProgress(St, r.job.data.jobId, 100), r, [r EXCEPT !.stage = "stat"])
            ELSE Reject(St, r, "FFmpeg exited with code " \o ToString(code)))
  /\ ev' = Internal
  /\ UNCHANGED <<nextId, zombies>>

\* ffmpeg.on('error')
TransformError(r) ==
  /\ r \in running /\ r.stage = "transform"
  /\ Commit(Reject(St, r, "Failed to start FFmpeg: spawn ffmpeg ENOENT"))
  /\ ev' = Internal
  /\ UNCHANGED <<nextId, zombies>>

\* fs.rename settles; on success onProgress(100) and fs.stat is awaited.
RenameDone(r, ok) ==
  /\ r \in running /\ r.stage = "rename"
  /\ Commit(IF ok
            THEN Replace(onProgress(St, r.job.data.jobId, 100), r, [r EXCEPT !.stage = "stat"])
            ELSE Reject(St, r, "EXDEV: cross-device link not permitted, rename"))
  /\ ev' = Internal
  /\ UNCHANGED <<nextId, zombies>>

\* fs.stat settles; the result is built and the finally block runs fs.rm.
StatDone(r, ok) ==
  /\ r \in running /\ r.stage = "stat"
  /\ Commit(IF ok
            THEN Replace(St, r, [r EXCEPT !.stage = "rm", !.size = "stats.size"])
            ELSE Reject(St, r, "ENOENT: no such file or directory, stat"))
  /\ ev' = Internal
  /\ UNCHANGED <<nextId, zombies>>

\* logger.warn: a failure that is caught and only logged.
Warned == [NoEv EXCEPT !.op = "warn"]

\* What fs.rm's failure would do if the finally block let it escape.
RmDoneEscalates(r, ok) ==
  /\ r \in running /\ r.stage = "rm"
  /\ Commit(processJobSettled(St, IF ok THEN r
                                  ELSE [r EXCEPT !.err = "ENOTEMPTY: directory not empty, rm"]))
  /\ ev' = IF ok THEN Internal ELSE Warned
  /\ UNCHANGED <<nextId, zombies>>

\* fs.rm of the finally block settles (its own failure is only logged):
\* downloadAndProcessVideo settles, processJob finishes and the loop of
\* processQueue goes on.
RmDone(r, ok) ==
  /\ r \in running /\ r.stage = "rm"
  /\ Commit(processJobSettled(St, r))
  /\ ev' = IF ok THEN Internal ELSE Warned
  /\ UNCHANGED <<nextId, zombies>>

\* stdout of a yt-dlp child whose promise was rejected from its stderr.
ZombieStdout(jobId, pct) ==
  /\ jobId \in zombies
  /\ Commit(onProgress(St, jobId, fetchProgress(pct)))
  /\ ev' = Internal
  /\ UNCHANGED <<nextId, zombies>>

\* Such a child exits: 'close' finds the promise already settled.
ZombieClose(jobId) ==
  /\ jobId \in zombies
  /\ zombies' = zombies \ {jobId}
  /\ ev' = Internal
  /\ UNCHANGED <<jobs, nextId, queues, isProcessing, running, timers>>

\* A retry callback that appends the item and starts no drain.
RetryTimerNoDrain(t) ==
  /\ t \in timers
  /\ Commit(addDeferred([St EXCEPT !.timers = timers \ {t}], "processVideo",
                        t.data, t.options))
  /\ ev' = Internal
  /\ UNCHANGED <<nextId, zombies>>

\* The setTimeout callback of processJob's retry branch.
RetryTimer(t) ==
  /\ t \in timers
  /\ Commit(add([St EXCEPT !.timers = timers \ {t}], "processVideo", t.data, t.options))
  /\ ev' = Internal
  /\ UNCHANGED <<nextId, zombies>>

\* A caller asks for the platform of url.
Detect(url) ==
  /\ ev' = [NoEv EXCEPT !.op = "detect", !.url = url, !.status = detected[url]]
  /\ UNCHANGED <<jobs, nextId, queues, isProcessing, running, timers, zombies>>

\* A caller asks for the platform of url and whether url is valid.
Match(url) ==
  /\ ev' = [NoEv EXCEPT !.op = "match", !.url = url,
                        !.status = matched[url].platform,
                        !.valid = matched[url].valid]
  /\ UNCHANGED <<jobs, nextId, queues, isProcessing, running, timers, zombies>>

\* jobQueue.add(queueName, data, options) by any caller, on any queue name.
AddTo(queueName) ==
  /\ Commit(add(St, queueName,
                [jobId |-> nextId, url |-> "https://youtu.be/abc", platform |-> "YouTube",
                 quality |-> "best", removeWatermark |-> "true", format |-> "mp4"],
                DownloadOptions))
  /\ nextId' = nextId + 1
  /\ ev' = [Internal EXCEPT !.op = "add", !.id = nextId]
  /\ UNCHANGED zombies

\* handleUrlSubmit with a non-blank url, the form enabled: fetchVideoInfo
\* up to its await; its throw is caught and dropped by handleUrlSubmit.
FetchVideoInfo(url) ==
  /\ ~ hook.isLoading
  /\ hook' = IF ~ hookValid[url] THEN hook
             ELSE [isLoading |-> TRUE, error |-> Undef, videoInfo |-> Undef]
  /\ ev' = [NoEv EXCEPT !.op = "fetchVideoInfo", !.url = url, !.valid = hookValid[url]]
  /\ UNCHANGED <<jobs, nextId, queues, isProcessing, running, timers, zombies>>

\* The awaited setTimeout of fetchVideoInfo resolves: the mock is stored,
\* then the finally block runs.
FetchVideoInfoDone ==
  /\ hook.isLoading
  /\ hook' = [hook EXCEPT !.videoInfo = "mockVideoInfo", !.isLoading = FALSE]
  /\ ev' = [NoEv EXCEPT !.op = "fetched"]
  /\ UNCHANGED <<jobs, nextId, queues, isProcessing, running, timers, zombies>>

\* reset() of the hook.
Reset ==
  /\ hook' = NoHook
  /\ ev' = [NoEv EXCEPT !.op = "reset"]
  /\ UNCHANGED <<jobs, nextId, queues, isProcessing, running, timers, zombies>>

\* The values a caller passes as quality (Undef: none).
QualityValues == Qualities \cup {Undef, "4k", "360P", ""}

\* jobQueue.add('processVideo', data, options) by a caller other than the
\* download route: no record of the job is in the Job Store.
AddWork(quality) ==
  /\ Commit(add(St, "processVideo",
                [jobId |-> nextId, url |-> "https://youtu.be/abc", platform |-> "YouTube",
                 quality |-> quality, removeWatermark |-> "true", format |-> "mp4"],
                DownloadOptions))
  /\ nextId' = nextId + 1
  /\ ev' = Internal
  /\ UNCHANGED zombies

(* ------------------------- the temp directory -------------------------- *)
(* disk.downloads and disk.processing are the immediate entries of the two *)
(* directories. An entry has a name (a job id for what the Media Processor *)
(* makes), isDirectory, hollow (a directory that holds nothing but empty   *)
(* directories) and age, the milliseconds since its modification time.     *)

NoDisk == [downloads |-> {}, processing |-> {}]

\* processingPath = join(PROCESSING_DIR, jobId) exists.
scratchExists(d, jobId) == \E e \in d.processing : e.name = jobId

\* fs.mkdir(processingPath, { recursive: true }): no error if it exists.
mkdir(d, jobId) ==
  IF scratchExists(d, jobId) THEN d
  ELSE [d EXCEPT !.processing = @ \cup
          {[name |-> jobId, isDirectory |-> TRUE, hollow |-> TRUE, age |-> 0]}]

\* fs.rm(processingPath, { recursive: true, force: true })
rm(d, jobId) == [d EXCEPT !.processing = {e \in @ : e.name # jobId}]

\* fs.mkdir settles, with its effect on the disk.
MkdirFs(r, ok) ==
  /\ MkdirDone(r, ok)
  /\ disk' = IF ok THEN mkdir(disk, r.job.data.jobId) ELSE disk

\* fs.rm of the finally block settles, with its effect on the disk.
RmFs(r, ok) ==
  /\ RmDone(r, ok)
  /\ disk' = IF ok THEN rm(disk, r.job.data.jobId) ELSE disk

\* outputPath = join(DOWNLOADS_DIR, `${jobId}.${format}`) has been written.
outputExists(d, jobId) == \E e \in d.downloads : e.name = jobId

\* The output file, as fs.rename or ffmpeg leaves it in the downloads
\* directory: a file modified just now.
written(d, jobId) ==
  [d EXCEPT !.downloads = {e \in @ : e.name # jobId} \cup
      {[name |-> jobId, isDirectory |-> FALSE, hollow |-> FALSE, age |-> 0]}]

\* fs.rename(rawVideoPath, outputPath) settles, with its effect on the disk.
RenameFs(r, ok) ==
  /\ RenameDone(r, ok)
  /\ disk' = IF ok THEN written(disk, r.job.data.jobId) ELSE disk

\* ffmpeg closes, with its effect on the disk: code 0 has written outputPath.
TransformFs(r, code) ==
  /\ TransformClose(r, code)
  /\ disk' = IF code = 0 THEN written(disk, r.job.data.jobId) ELSE disk

(* ------------------------- cleanupService.js --------------------------- *)

\* 60 * 60 * 1000 and 30 * 60 * 1000, the maxAge of the two directories.
DownloadsMaxAge == 3600000
ProcessingMaxAge == 1800000

\* cleanupDirectory: the entries it leaves. An entry older than maxAge is
\* removed (fs.rm for a directory, fs.unlink for a file); stuck are the names
\* whose fs.stat throws, which is caught and logged per entry.
cleanupDirectory(entries, maxAge, stuck) ==
  {e \in entries : e.age > maxAge => e.name \in stuck}

\* cleanupEmptyDirectories below one of the two directories: the entries it
\* leaves. Every directory found empty once its own empty subdirectories
\* are gone is removed with fs.rmdir, whatever its age; errors are dropped.
cleanupEmptyDirectories(entries, stuck) ==
  {e \in entries : (e.isDirectory /\ e.hollow) => e.name \in stuck}

\* CleanupService.cleanup, one pass.
cleanup(d, stuck) ==
  [downloads |-> cleanupEmptyDirectories(
                   cleanupDirectory(d.downloads, DownloadsMaxAge, stuck), stuck),
   processing |-> cleanupEmptyDirectories(
                   cleanupDirectory(d.processing, ProcessingMaxAge, stuck), stuck)]

Swept == [NoEv EXCEPT !.op = "sweep"]

\* The setInterval callback of CleanupService.start (and its first call).
Sweep(stuck) ==
  /\ disk' = cleanup(disk, stuck)
  /\ ev' = IF \E e \in disk.downloads \cup disk.processing : e.name \in stuck
           THEN Warned ELSE Swept
  /\ UNCHANGED <<jobs, nextId, queues, isProcessing, running, timers, zombies>>

(* ------------------------ jobQueue.js, cleanup ------------------------- *)
JobMaxAge == 86400000

\* The ids an eviction that looks at the age alone removes.
evictedAnyStatus(store, t) ==
  {jobId \in DOMAIN store : t - store[jobId].createdAt > JobMaxAge}

\* The ids JobQueue.cleanup() removes from the Map at time t.
evicted(store, t) ==
  {jobId \in DOMAIN store :
     /\ t - store[jobId].createdAt > JobMaxAge
     /\ (store[jobId].status = "completed" \/ store[jobId].status = "failed")}

\* The setInterval callback of jobQueue.js: jobQueue.cleanup().
JobStoreCleanup ==
  /\ jobs' = [jobId \in DOMAIN jobs \ evicted(jobs, now) |-> jobs[jobId]]
  /\ ev' = [NoEv EXCEPT !.op = "jobcleanup", !.evicted = evicted(jobs, now)]
  /\ UNCHANGED <<nextId, queues, isProcessing, running, timers, zombies>>

\* Time passes: Date.now() moves to a later value.
Tick(t) ==
  /\ t > now
  /\ now' = t
  /\ ev' = [NoEv EXCEPT !.op = "tick"]
  /\ UNCHANGED <<jobs, nextId, queues, isProcessing, running, timers, zombies>>

\* Time passes for the files too: now - mtime grows with Date.now().
TickDisk(t) ==
  /\ Tick(t)
  /\ disk' = [dir \in DOMAIN disk |->
               {[entry EXCEPT !.age = @ + (t - now)] : entry \in disk[dir]}]

(* ------------------ videoProcessor.js, helper functions ---------------- *)
(* A format of yt-dlp's metadata has a height and a filesize; 0 stands for *)
(* a value that is missing, null or 0, which the code tests as falsy.      *)

\* const order = { '360p': 1, '720p': 2, '1080p': 3, '4K': 4 }
order == [q \in {"360p", "720p", "1080p", "4K"} |->
            IF q = "360p" THEN 1 ELSE IF q = "720p" THEN 2
            ELSE IF q = "1080p" THEN 3 ELSE 4]

RECURSIVE sorted(_)
\* Array.from(set).sort((a, b) => order[a] - order[b])
sorted(tiers) ==
  IF tiers = {} THEN <<>>
  ELSE LET first == CHOOSE a \in tiers : \A b \in tiers : order[a] <= order[b]
       IN  <<first>> \o sorted(tiers \ {first})

\* The tiers one format adds to the Set of extractAvailableQualities.
addedBy(format) ==
  IF format.height = 0 THEN {}
  ELSE (IF format.height <= 360 THEN {"360p"} ELSE {})
       \cup (IF format.height <= 720 THEN {"720p"} ELSE {})
       \cup (IF format.height <= 1080 THEN {"1080p"} ELSE {})
       \cup (IF format.height > 1080 THEN {"4K"} ELSE {})

extractAvailableQualities(formats) ==
  sorted(UNION {addedBy(formats[i]) : i \in 1..Len(formats)})

\* The key estimateFileSize files a format under.
qualityOf(format) ==
  IF format.height <= 360 THEN "360p"
  ELSE IF format.height <= 720 THEN "720p"
  ELSE IF format.height <= 1080 THEN "1080p" ELSE "4K"

estimateFileSize(formats) ==
  LET counted == {i \in 1..Len(formats) :
                    formats[i].filesize # 0 /\ formats[i].height # 0}
      keys == {qualityOf(formats[i]) : i \in counted}
  IN  [q \in keys |->
         LET of == {formats[i].filesize : i \in {k \in counted : qualityOf(formats[k]) = q}}
         IN  CHOOSE m \in of : \A n \in of : n <= m]

\* getVideoInfo builds availableQualities and fileSize from metadata.formats.
VideoInfo(formats) ==
  /\ ev' = [NoEv EXCEPT !.op = "info", !.formats = formats,
                        !.qualities = extractAvailableQualities(formats),
                        !.sizes = estimateFileSize(formats)]
  /\ UNCHANGED <<jobs, nextId, queues, isProcessing, running, timers, zombies>>

(* -------------------- cleanupService.js on a tree ---------------------- *)
(* tree is the listing of the temp directory: a sequence of entries in     *)
(* readdir order. An entry has a name, isDirectory, age (milliseconds      *)
(* since its modification time) and kids, the listing of a directory.      *)

File(age) == [name |-> "e", isDirectory |-> FALSE, age |-> age, kids |-> <<>>]

Directory(name, age, kids) ==
  [name |-> name, isDirectory |-> TRUE, age |-> age, kids |-> kids]

\* ensureTempDirectories of server.js: the temp directory at start.
TempDirectories ==
  <<Directory("downloads", 0, <<>>), Directory("processing", 0, <<>>),
    Directory("uploads", 0, <<>>)>>

RECURSIVE directoryCount(_)
\* The directories in a listing, at any depth.
directoryCount(entries) ==
  IF entries = <<>> THEN 0
  ELSE (IF Head(entries).isDirectory
        THEN 1 + directoryCount(Head(entries).kids) ELSE 0)
       + directoryCount(Tail(entries))

\* The entries of a listing whose position satisfies Keep, in order.
keepIf(entries, Keep(_)) ==
  LET RECURSIVE from(_)
      from(i) == IF i > Len(entries) THEN <<>>
                 ELSE (IF Keep(i) THEN <<entries[i]>> ELSE <<>>) \o from(i + 1)
  IN  from(1)

\* A sweep of one directory that gives up at the first entry that throws.
cleanupDirectoryAborting(entries, dirName, maxAge, stuck) ==
  LET deletes(listing, i) ==
        listing[i].age > maxAge /\ \A k \in stuck : i < k
      sweepOne(e) ==
        IF e.name = dirName /\ e.isDirectory
        THEN [e EXCEPT !.kids = keepIf(e.kids, LAMBDA i : ~deletes(e.kids, i))]
        ELSE e
      watched == {i \in 1..Len(entries) : entries[i].name = dirName}
  IN  [kids |-> [i \in 1..Len(entries) |-> sweepOne(entries[i])],
       deleted |-> IF watched = {} THEN 0
                   ELSE LET e == entries[CHOOSE i \in watched : TRUE]
                        IN Cardinality({i \in 1..Len(e.kids) : deletes(e.kids, i)})]

\* cleanupDirectory(join(TEMP_DIR, dirName), maxAge): the listing of the temp
\* directory it leaves and its deletedCount. A missing directory (ENOENT)
\* is no error; stuck are the positions whose fs.stat or delete throws,
\* which is caught and logged entry by entry.
cleanupDirectoryTree(entries, dirName, maxAge, stuck) ==
  LET deletes(listing, i) == listing[i].age > maxAge /\ i \notin stuck
      sweepOne(e) ==
        IF e.name = dirName /\ e.isDirectory
        THEN [e EXCEPT !.kids = keepIf(e.kids, LAMBDA i : ~deletes(e.kids, i))]
        ELSE e
      watched == {i \in 1..Len(entries) : entries[i].name = dirName}
  IN  [kids |-> [i \in 1..Len(entries) |-> sweepOne(entries[i])],
       deleted |-> IF watched = {} THEN 0
                   ELSE LET e == entries[CHOOSE i \in watched : TRUE]
                        IN Cardinality({i \in 1..Len(e.kids) : deletes(e.kids, i)})]

RECURSIVE cleanupEmptyDirectoriesPreOrder(_, _)
\* Pruning that tests a directory before it goes into it.
cleanupEmptyDirectoriesPreOrder(entries, rmdirOk) ==
  IF entries = <<>> THEN <<>>
  ELSE LET e == Head(entries)
           rest == cleanupEmptyDirectoriesPreOrder(Tail(entries), rmdirOk)
       IN  IF ~e.isDirectory THEN <<e>> \o rest
           ELSE IF e.kids = <<>> /\ rmdirOk THEN rest
           ELSE <<[e EXCEPT !.kids =
                     cleanupEmptyDirectoriesPreOrder(e.kids, rmdirOk)]>> \o rest

RECURSIVE cleanupEmptyDirectoriesTree(_, _)
\* cleanupEmptyDirectories(dirPath) on the listing of dirPath: each
\* subdirectory is gone into first, then read again and removed with
\* fs.rmdir if it is empty; an error of fs.rmdir is dropped.
cleanupEmptyDirectoriesTree(entries, rmdirOk) ==
  IF entries = <<>> THEN <<>>
  ELSE LET e == Head(entries)
           rest == cleanupEmptyDirectoriesTree(Tail(entries), rmdirOk)
       IN  IF ~e.isDirectory THEN <<e>> \o rest
           ELSE LET subEntries == cleanupEmptyDirectoriesTree(e.kids, rmdirOk)
                IN  IF subEntries = <<>> /\ rmdirOk THEN rest
                    ELSE <<[e EXCEPT !.kids = subEntries]>> \o rest

\* CleanupService.cleanup on the tree: the listing it leaves and its log.
cleanupTree(entries, stuck, rmdirOk) ==
  LET a == cleanupDirectoryTree(entries, "downloads", DownloadsMaxAge, stuck)
      b == cleanupDirectoryTree(a.kids, "processing", ProcessingMaxAge, stuck)
      c == cleanupEmptyDirectoriesTree(b.kids, rmdirOk)
  IN  [kids |-> c,
       log |-> [downloadsDeleted |-> a.deleted, processingDeleted |-> b.deleted,
                pruned |-> directoryCount(b.kids) - directoryCount(c),
                stuck |-> stuck, rmdirOk |-> rmdirOk,
                missing |-> {n \in {"downloads", "processing"} :
                              \A i \in 1..Len(entries) : entries[i].name # n}]]

\* this.cleanup() on the tree, called by the step op.
CleanupAs(op, stuck, rmdirOk) ==
  /\ tree' = cleanupTree(tree, stuck, rmdirOk).kids
  /\ ev' = [NoEv EXCEPT !.op = op, !.status = "swept",
                        !.sweep = cleanupTree(tree, stuck, rmdirOk).log]
  /\ UNCHANGED <<jobs, nextId, queues, isProcessing, running, timers, zombies>>

\* The setInterval callback of CleanupService.start, on the tree.
SweepTree(stuck, rmdirOk) == CleanupAs("sweeptree", stuck, rmdirOk)

\* 30 * 60 * 1000, the period of the interval timer.
CleanupInterval == 1800000

\* start() that does not look at isRunning.
startAlways(s, t) ==
  [s EXCEPT !.isRunning = TRUE,
            !.intervalId = s.nextTimer,
            !.registered = @ \cup {[id |-> s.nextTimer, due |-> t + CleanupInterval]},
            !.nextTimer = @ + 1,
            !.startedAt = t]

\* start() at time t, up to its call of cleanup(): the service it leaves.
start(s, t) ==
  IF s.isRunning THEN s
  ELSE [s EXCEPT !.isRunning = TRUE,
                 !.intervalId = s.nextTimer,
                 !.registered = @ \cup {[id |-> s.nextTimer, due |-> t + CleanupInterval]},
                 !.nextTimer = @ + 1,
                 !.startedAt = t]

\* stop(): the service it leaves.
stop(s) ==
  [s EXCEPT !.isRunning = FALSE,
            !.intervalId = 0,
            !.registered = IF s.intervalId # 0
                           THEN {timer \in @ : timer.id # s.intervalId} ELSE @]

\* cleanupService.start(): a start while running logs a warning and
\* returns; otherwise the timer is registered and one pass runs at once.
Start(stuck, rmdirOk) ==
  /\ service' = start(service, now)
  /\ IF service' # service
     THEN CleanupAs("start", stuck, rmdirOk)
     ELSE /\ ev' = [NoEv EXCEPT !.op = "start", !.status = "already running"]
          /\ UNCHANGED <<jobs, nextId, queues, isProcessing, running, timers, zombies, tree>>

\* cleanupService.stop()
Stop ==
  /\ service' = stop(service)
  /\ ev' = [NoEv EXCEPT !.op = "stop"]
  /\ UNCHANGED <<jobs, nextId, queues, isProcessing, running, timers, zombies, tree>>

\* A registered interval timer is due: its callback runs one pass and the
\* timer is due again one period later.
IntervalFires(timer, stuck, rmdirOk) ==
  /\ timer \in service.registered
  /\ timer.due = now
  /\ service' = [service EXCEPT !.registered =
                   (@ \ {timer}) \cup {[timer EXCEPT !.due = @ + CleanupInterval]}]
  /\ CleanupAs("interval", stuck, rmdirOk)

\* Time passes up to t, not beyond the time a registered timer is due.
ServiceTick(t) ==
  /\ \A timer \in service.registered : now < timer.due /\ t <= timer.due
  /\ Tick(t)
  /\ UNCHANGED tree

(* --------------------- errorHandler.js, extract ------------------------ *)

\* The catch block of extractVideoMetadata: the message it throws for the
\* message of the failed exec (or JSON.parse).
extractErrorMessage(raw) ==
  IF includes(raw, "timeout")
  THEN "Video extraction timed out. The video might be too large or the platform is slow to respond."
  ELSE IF includes(raw, "Private video") \/ includes(raw, "not available")
  THEN "This video is private or not available for download."
  ELSE "Failed to extract video information: " \o raw

\* The status errorHandler answers with, for err = [name, code, message].
errorHandlerStatus(err) ==
  CASE err.name = "ValidationError" -> 400
    [] err.name = "UnauthorizedError" -> 401
    [] err.name = "ForbiddenError" -> 403
    [] err.name = "NotFoundError" -> 404
    [] err.name = "RateLimitError" -> 429
    [] err.code = "ENOENT" -> 404
    [] err.code = "ENOSPC" -> 507
    [] includes(err.message, "timeout") -> 408
    [] includes(err.message, "private") -> 403
    [] includes(err.message, "unavailable") -> 410
    [] OTHER -> 500

\* Outcomes of the yt-dlp --dump-json exec: "ok" or the error's message.
ExecOutcomes == {"ok", "Command failed: yt-dlp --dump-json timeout",
                 "ERROR: Private video", "ERROR: Unable to download webpage"}

\* The message of the error extractVideoMetadata throws, per outcome.
extractFailureMessage == [o \in ExecOutcomes |-> extractErrorMessage(o)]

\* The status POST /extract answers with through next(error), per outcome.
extractFailureStatus ==
  [o \in ExecOutcomes |->
     errorHandlerStatus([name |-> "Error", code |-> Undef,
                         message |-> extractErrorMessage(o)])]

\* The body errorHandler answers with: every branch sets success, error and
\* message; requestId and timestamp are added, and the stack in development.
errorHandlerBody(e) ==
  [success |-> FALSE,
   fields |-> {"success", "error", "message", "requestId", "timestamp"}
              \cup (IF e.NODE_ENV = "development" THEN {"stack"} ELSE {})]

(* ------------------------- middleware/auth.js -------------------------- *)

\* API_KEYS as the module is loaded.
StaticKeys == {"demo-key-12345", "test-key-67890"}

\* process.env with neither variable set.
NoEnv == [NODE_ENV |-> Undef, SKIP_AUTH |-> Undef]

\* No request yet: neither the header nor the query parameter.
NoReq == [header |-> Undef, query |-> Undef]

\* JavaScript truthiness of a header or query value.
truthy(v) == v # Undef /\ v # ""

\* validateApiKey with the membership test left out.
validateApiKeyAnyKey(keys, e, r) ==
  IF e.NODE_ENV = "development" /\ e.SKIP_AUTH = "true" THEN "next"
  ELSE IF ~truthy(IF truthy(r.header) THEN r.header ELSE r.query)
  THEN "required" ELSE "next"

\* validateApiKey: "next" when the request goes on to the router, else the
\* 401 it answers with.
validateApiKey(keys, e, r) ==
  LET apiKey == IF truthy(r.header) THEN r.header ELSE r.query
  IN  IF e.NODE_ENV = "development" /\ e.SKIP_AUTH = "true" THEN "next"
      ELSE IF ~truthy(apiKey) THEN "required"
      ELSE IF apiKey \notin keys THEN "invalid"
      ELSE "next"

UnauthorizedBody ==
  [success |-> FALSE, fields |-> {"success", "error", "message", "documentation"}]

\* app.use('/api/video/', validateApiKey): a request with credentials r for
\* the route whose handler is the action Handler.
Gate(r, Handler) ==
  /\ req' = r
  /\ IF validateApiKey(API_KEYS, env, r) = "next"
     THEN Handler
     ELSE /\ ev' = [NoEv EXCEPT !.op = "auth", !.code = 401,
                                !.status = validateApiKey(API_KEYS, env, r),
                                !.body = UnauthorizedBody]
          /\ UNCHANGED <<jobs, nextId, queues, isProcessing, running, timers,
                         zombies>>

\* The keys generateApiKey returns.
GeneratedKeys == {"vd_1_a"}

KeyEv == [NoEv EXCEPT !.op = "key", !.code = 200,
                      !.body = [success |-> TRUE, fields |-> {"success", "data"}]]

\* POST /api/auth/key with the admin password: addApiKey(generateApiKey()).
AddApiKey(key) ==
  /\ API_KEYS' = API_KEYS \cup {key}
  /\ ev' = KeyEv
  /\ UNCHANGED <<jobs, nextId, queues, isProcessing, running, timers, zombies>>

\* DELETE /api/auth/key with the admin password: removeApiKey(apiKey).
RemoveApiKey(key) ==
  /\ API_KEYS' = API_KEYS \ {key}
  /\ ev' = IF key \in API_KEYS
           THEN [KeyEv EXCEPT !.body = [success |-> TRUE, fields |-> {"success", "message"}]]
           ELSE [KeyEv EXCEPT !.code = 404,
                              !.body = [success |-> FALSE, fields |-> {"success", "error"}]]
  /\ UNCHANGED <<jobs, nextId, queues, isProcessing, running, timers, zombies>>

(* ------------------------------ server.js ------------------------------ *)

\* app.use('*'): a request for a path no router serves.
UnknownRoute ==
  /\ ev' = [NoEv EXCEPT !.op = "route", !.code = 404,
                        !.body = [success |-> FALSE,
                                  fields |-> {"error", "message", "availableEndpoints"}]]
  /\ UNCHANGED <<jobs, nextId, queues, isProcessing, running, timers, zombies>>

(* ------------------------- routes/video.js ----------------------------- *)

\* The 400 of both POST routes when validationResult is not empty.
InvalidInputBody == [success |-> FALSE, fields |-> {"success", "error", "details"}]

\* The body of a 200 with a data field.
DataBody == [success |-> TRUE, fields |-> {"success", "data"}]

\* POST /api/video/extract
PostExtract(b, outcome) ==
  /\ ev' = IF ~extractValid[b]
           THEN [NoEv EXCEPT !.op = "extract", !.code = 400, !.req = b,
                             !.body = InvalidInputBody]
           ELSE IF outcome = "ok"
           THEN [NoEv EXCEPT !.op = "extract", !.code = 200, !.req = b, !.exec = TRUE,
                             !.body = DataBody]
           ELSE [NoEv EXCEPT !.op = "extract", !.req = b, !.exec = TRUE,
                             !.status = extractFailureMessage[outcome],
                             !.body = errorHandlerBody(env),
                             !.code = extractFailureStatus[outcome]]
  /\ UNCHANGED <<jobs, nextId, queues, isProcessing, running, timers, zombies>>

\* POST /api/video/download
PostDownload(b) ==
  LET body == Bodies[b]
      jobId == nextId
      job == newJob(jobId, body, platformOf[b])
      data == [jobId |-> jobId, url |-> job.url, platform |-> job.platform,
               quality |-> job.quality, removeWatermark |-> job.removeWatermark,
               format |-> job.format]
  IN  IF ~downloadValid[b]
      THEN /\ ev' = [NoEv EXCEPT !.op = "download", !.code = 400, !.req = b,
                                 !.body = InvalidInputBody]
           /\ UNCHANGED <<jobs, nextId, queues, isProcessing, running, timers,
                          zombies>>
      ELSE /\ Commit(add([St EXCEPT !.jobs = set(jobs, jobId, job)],
                         "processVideo", data, DownloadOptions))
           /\ nextId' = nextId + 1
           /\ ev' = [NoEv EXCEPT !.op = "download", !.code = 200, !.id = jobId,
                                 !.status = "queued", !.req = b,
                                 !.body = DataBody]
           /\ UNCHANGED zombies

\* GET /api/video/status/:jobId
GetStatus(jobId) ==
  /\ ev' = IF ~has(jobs, jobId)
           THEN [NoEv EXCEPT !.op = "status", !.code = 404, !.id = jobId,
                             !.body = [success |-> FALSE,
                                       fields |-> {"success", "error", "message"}]]
           ELSE [NoEv EXCEPT !.op = "status", !.code = 200, !.id = jobId,
                             !.status = jobs[jobId].status, !.body = DataBody]
  /\ UNCHANGED <<jobs, nextId, queues, isProcessing, running, timers, zombies>>

DeleteJobAlwaysCancel(jobId) ==
  /\ IF ~has(jobs, jobId)
     THEN /\ ev' = [NoEv EXCEPT !.op = "delete", !.code = 404, !.id = jobId,
                                !.body = [success |-> FALSE, fields |-> {"success", "error"}]]
          /\ jobs' = jobs
     ELSE /\ jobs' = set(jobs, jobId, [jobs[jobId] EXCEPT !.status = "cancelled"])
          /\ ev' = [NoEv EXCEPT !.op = "delete", !.code = 200, !.id = jobId,
                                !.status = jobs[jobId].status,
                                !.body = [success |-> TRUE, fields |-> {"success", "message"}]]
  /\ UNCHANGED <<nextId, queues, isProcessing, running, timers, zombies>>

\* DELETE /api/video/job/:jobId; ev.status is the status found.
DeleteJob(jobId) ==
  /\ IF ~has(jobs, jobId)
     THEN /\ ev' = [NoEv EXCEPT !.op = "delete", !.code = 404, !.id = jobId,
                                !.body = [success |-> FALSE, fields |-> {"success", "error"}]]
          /\ jobs' = jobs
     ELSE /\ IF jobs[jobId].status = "processing" \/ jobs[jobId].status = "queued"
             THEN jobs' = set(jobs, jobId, [jobs[jobId] EXCEPT !.status = "cancelled"])
             ELSE jobs' = delete(jobs, jobId)
          /\ ev' = [NoEv EXCEPT !.op = "delete", !.code = 200, !.id = jobId,
                                !.status = jobs[jobId].status,
                                !.body = [success |-> TRUE, fields |-> {"success", "message"}]]
  /\ UNCHANGED <<nextId, queues, isProcessing, running, timers, zombies>>

(* --------------------------- specification ----------------------------- *)

Init ==
  /\ jobs = <<>>
  /\ nextId = 1
  /\ queues = [q \in QueueNames |-> <<>>]
  /\ isProcessing = FALSE
  /\ running = {}
  /\ timers = {}
  /\ zombies = {}
  /\ ev = NoEv
  /\ invocations = [j \in JobIds |-> 0]
  /\ seenProcessing = {}
  /\ enqOrder = <<>>
  /\ disk = NoDisk
  /\ API_KEYS = StaticKeys
  /\ env = NoEnv
  /\ req = NoReq
  /\ tree = TempDirectories
  /\ now = 0
  /\ hook = NoHook
  /\ service = NoService

\* A submission; limit bounds the number of jobs ever created.
Submit(b, limit) == (downloadValid[b] => nextId <= limit) /\ PostDownload(b)

ValidBodyIds == {b \in BodyIds : downloadValid[b]}

\* The invocations that start in the step.
startedNow ==
  {r.job.data.jobId : r \in {x \in running' \ running : x.stage = "mkdir"}}

\* History: the jobs whose stored status has been `processing`.
ObserveProcessing ==
  seenProcessing' = seenProcessing \cup
    {j \in DOMAIN jobs' : jobs'[j].status = "processing"}

\* History: how many times downloadAndProcessVideo was called per job.
CountInvocations ==
  invocations' = [j \in JobIds |->
                    IF j \in startedNow THEN Min(invocations[j] + 1, MaxInvocations)
                    ELSE invocations[j]]

\* The jobs add() is called for in the step: by POST /download, by a timer.
addedNow ==
  (IF nextId' # nextId THEN <<nextId>> ELSE <<>>) \o
  (IF timers \ timers' # {}
   THEN <<(CHOOSE t \in timers \ timers' : TRUE).data.jobId>> ELSE <<>>)

\* History: the jobs added and not yet started, in the order of the add() calls.
ObserveOrder ==
  enqOrder' = SelectSeq(enqOrder \o addedNow, LAMBDA j : j \notin startedNow)

(* Spec: the life of a job. Valid submissions, status polls, DELETE, every  *)
(* event of the Media Processor and its children, the retry timers.        *)
Obs == ObserveProcessing /\ UNCHANGED <<invocations, enqOrder, disk, API_KEYS, env, req, tree, now, hook, service>>

Next ==
  \/ \E b \in ValidBodyIds : Submit(b, MaxJobs) /\ Obs
  \/ \E jobId \in JobIds : GetStatus(jobId) /\ Obs
  \/ \E jobId \in JobIds : DeleteJob(jobId) /\ Obs
  \/ \E r \in running, ok \in BOOLEAN : MkdirDone(r, ok) /\ Obs
  \/ \E r \in running, pct \in FetchPercents : FetchStdout(r, pct) /\ Obs
  \/ \E r \in running, text \in StderrTexts : FetchStderr(r, text) /\ Obs
  \/ \E r \in running : FetchError(r) /\ Obs
  \/ \E r \in running, code \in {0, 1}, found \in BOOLEAN : FetchClose(r, code, found) /\ Obs
  \/ \E r \in running, t \in TransformTimes : TransformStderr(r, t) /\ Obs
  \/ \E r \in running, code \in {0, 1} : TransformClose(r, code) /\ Obs
  \/ \E r \in running : TransformError(r) /\ Obs
  \/ \E r \in running, ok \in BOOLEAN : RenameDone(r, ok) /\ Obs
  \/ \E r \in running, ok \in BOOLEAN : StatDone(r, ok) /\ Obs
  \/ \E r \in running, ok \in BOOLEAN : RmDone(r, ok) /\ Obs
  \/ \E jobId \in JobIds, pct \in FetchPercents : ZombieStdout(jobId, pct) /\ Obs
  \/ \E jobId \in JobIds : ZombieClose(jobId) /\ Obs
  \/ \E t \in timers : RetryTimer(t) /\ Obs

Spec == Init /\ [][Next]_vars

(* ApiSpec: request validation. Every body on both POST routes, while jobs *)
(* are processed (without the children's output).                          *)
ApiObs == UNCHANGED <<invocations, seenProcessing, enqOrder, disk, API_KEYS, env, req, tree, now, hook, service>>

ApiNext ==
  \/ \E b \in BodyIds : Submit(b, MaxJobs) /\ ApiObs
  \/ \E b \in BodyIds, outcome \in ExecOutcomes : PostExtract(b, outcome) /\ ApiObs
  \/ \E r \in running, ok \in BOOLEAN : MkdirDone(r, ok) /\ ApiObs
  \/ \E r \in running : FetchError(r) /\ ApiObs
  \/ \E r \in running, code \in {0, 1}, found \in BOOLEAN : FetchClose(r, code, found) /\ ApiObs
  \/ \E r \in running, code \in {0, 1} : TransformClose(r, code) /\ ApiObs
  \/ \E r \in running, ok \in BOOLEAN : RenameDone(r, ok) /\ ApiObs
  \/ \E r \in running, ok \in BOOLEAN : StatDone(r, ok) /\ ApiObs
  \/ \E r \in running, ok \in BOOLEAN : RmDone(r, ok) /\ ApiObs
  \/ \E t \in timers : RetryTimer(t) /\ ApiObs

ApiSpec == Init /\ [][ApiNext]_vars

(* QueueSpec: the queue under load. More jobs, every way a call settles,   *)
(* the retry timers; the order of the add() calls is recorded.             *)
QueueObs == ObserveOrder /\ UNCHANGED <<invocations, seenProcessing, disk, API_KEYS, env, req, tree, now, hook, service>>

QueueNext ==
  \/ \E b \in ValidBodyIds : Submit(b, MaxQueueJobs) /\ QueueObs
  \/ \E r \in running, ok \in BOOLEAN : MkdirDone(r, ok) /\ QueueObs
  \/ \E r \in running, code \in {0, 1} : FetchClose(r, code, TRUE) /\ QueueObs
  \/ \E r \in running, code \in {0, 1} : TransformClose(r, code) /\ QueueObs
  \/ \E r \in running, ok \in BOOLEAN : RenameDone(r, ok) /\ QueueObs
  \/ \E r \in running : StatDone(r, TRUE) /\ QueueObs
  \/ \E r \in running, ok \in BOOLEAN : RmDone(r, ok) /\ QueueObs
  \/ \E t \in timers : RetryTimer(t) /\ QueueObs

QueueSpec == Init /\ [][QueueNext]_vars

(* FsSpec: the Media Processor and the scratch directory. Every way a     *)
(* call goes through its stages, with fs.mkdir and fs.rm acting on disk.   *)
FsObs == UNCHANGED <<invocations, seenProcessing, enqOrder, API_KEYS, env, req, tree, now, hook, service>>
FsKeep == FsObs /\ UNCHANGED disk

FsNext ==
  \/ \E b \in ValidBodyIds : Submit(b, MaxJobs) /\ FsKeep
  \/ \E r \in running, ok \in BOOLEAN : MkdirFs(r, ok) /\ FsObs
  \/ \E r \in running, text \in StderrTexts : FetchStderr(r, text) /\ FsKeep
  \/ \E r \in running : FetchError(r) /\ FsKeep
  \/ \E r \in running, code \in {0, 1}, found \in BOOLEAN : FetchClose(r, code, found) /\ FsKeep
  \/ \E r \in running, code \in {0, 1} : TransformClose(r, code) /\ FsKeep
  \/ \E r \in running : TransformError(r) /\ FsKeep
  \/ \E r \in running, ok \in BOOLEAN : RenameDone(r, ok) /\ FsKeep
  \/ \E r \in running, ok \in BOOLEAN : StatDone(r, ok) /\ FsKeep
  \/ \E r \in running, ok \in BOOLEAN : RmFs(r, ok) /\ FsObs
  \/ \E jobId \in JobIds : ZombieClose(jobId) /\ FsKeep
  \/ \E t \in timers : RetryTimer(t) /\ FsKeep

FsSpec == Init /\ [][FsNext]_vars

(* SweepSpec: the retention sweeper on a temp directory found in any     *)
(* state: each directory holds up to MaxEntries entries, files and         *)
(* directories, with ages around the two thresholds.                       *)
EntryNames == 1..MaxEntries

EntryAges == {minutes * 60000 : minutes \in {29, 30, 31, 59, 60, 61}}

Entries ==
  [name : EntryNames, isDirectory : {FALSE}, hollow : {FALSE}, age : EntryAges]
  \cup [name : EntryNames, isDirectory : {TRUE}, hollow : BOOLEAN, age : EntryAges]

Listings ==
  {l \in SUBSET Entries :
     \A e1, e2 \in l : e1.name = e2.name => e1 = e2}

SweepInit ==
  /\ jobs = <<>>
  /\ nextId = 1
  /\ queues = [q \in QueueNames |-> <<>>]
  /\ isProcessing = FALSE
  /\ running = {}
  /\ timers = {}
  /\ zombies = {}
  /\ ev = NoEv
  /\ invocations = [j \in JobIds |-> 0]
  /\ seenProcessing = {}
  /\ enqOrder = <<>>
  /\ disk \in [downloads : Listings, processing : Listings]
  /\ API_KEYS = StaticKeys
  /\ env = NoEnv
  /\ req = NoReq
  /\ tree = TempDirectories
  /\ now = 0
  /\ hook = NoHook
  /\ service = NoService

SweepNext ==
  \E stuck \in SUBSET EntryNames :
    Sweep(stuck) /\ UNCHANGED <<invocations, seenProcessing, enqOrder, API_KEYS, env, req, tree, now, hook, service>>

SweepSpec == SweepInit /\ [][SweepNext]_vars

(* UrlSpec: the Platform Matcher called with each URL of Urls.             *)
UrlNext ==
  \E url \in Urls :
    Detect(url) /\ UNCHANGED <<invocations, seenProcessing, enqOrder, disk, API_KEYS, env, req, tree, now, hook, service>>

UrlSpec == Init /\ [][UrlNext]_vars

(* InfoSpec: the helper functions of getVideoInfo called with each list of *)
(* up to MaxFormats formats, heights on and around the tier limits.        *)
MaxFormats == 2

Heights == {0, 240, 360, 361, 720, 721, 1080, 1081, 2160}

Filesizes == {0, 10, 20}

FormatLists ==
  UNION {[1..n -> [height : Heights, filesize : Filesizes]] : n \in 0..MaxFormats}

InfoNext ==
  \E formats \in FormatLists :
    VideoInfo(formats) /\ UNCHANGED <<invocations, seenProcessing, enqOrder, disk, API_KEYS, env, req, tree, now, hook, service>>

InfoSpec == Init /\ [][InfoNext]_vars

(* MatchSpec: detectPlatform and validateUrl called with each URL of       *)
(* MatchUrls.                                                              *)
MatchNext ==
  \E url \in MatchUrls :
    Match(url) /\ UNCHANGED <<invocations, seenProcessing, enqOrder, disk, API_KEYS, env, req, tree, now, hook, service>>

MatchSpec == Init /\ [][MatchNext]_vars

(* FetchSpec: the fetch stage called with every quality value.            *)
FetchNext ==
  \/ \E quality \in QualityValues : nextId <= MaxJobs /\ AddWork(quality) /\ FsKeep
  \/ \E r \in running, ok \in BOOLEAN : MkdirDone(r, ok) /\ FsKeep
  \/ \E r \in running : FetchError(r) /\ FsKeep
  \/ \E r \in running, code \in {0, 1}, found \in BOOLEAN : FetchClose(r, code, found) /\ FsKeep
  \/ \E r \in running, code \in {0, 1} : TransformClose(r, code) /\ FsKeep
  \/ \E r \in running, ok \in BOOLEAN : StatDone(r, ok) /\ FsKeep
  \/ \E r \in running, ok \in BOOLEAN : RmDone(r, ok) /\ FsKeep
  \/ \E t \in timers : RetryTimer(t) /\ FsKeep

FetchSpec == Init /\ [][FetchNext]_vars

(* AuthSpec: the routes under /api/video/ behind the API key gate, in any *)
(* environment, while keys are issued and revoked and one job is run.      *)
EnvValues == [NODE_ENV : {"development", "production"},
              SKIP_AUTH : {Undef, "true"}]

\* What the clients send as X-API-Key and as apiKey (Undef: not sent).
Credentials == {Undef, "", "demo-key-12345", "vd_1_a"}

Requests == [header : Credentials, query : Credentials]

MaxAuthJobs == 1

\* One body both validators accept and one they reject; an exec that
\* succeeds and one that fails.
AuthBodyIds == {1, 4}
AuthOutcomes == {"ok", "ERROR: Private video"}

\* The keys an administrator revokes.
RevokedKeys == {"demo-key-12345"} \cup GeneratedKeys

AuthInit ==
  /\ jobs = <<>>
  /\ nextId = 1
  /\ queues = [q \in QueueNames |-> <<>>]
  /\ isProcessing = FALSE
  /\ running = {}
  /\ timers = {}
  /\ zombies = {}
  /\ ev = NoEv
  /\ invocations = [j \in JobIds |-> 0]
  /\ seenProcessing = {}
  /\ enqOrder = <<>>
  /\ disk = NoDisk
  /\ API_KEYS = StaticKeys
  /\ env \in EnvValues
  /\ req = NoReq
  /\ tree = TempDirectories
  /\ now = 0
  /\ hook = NoHook
  /\ service = NoService

AuthObs == UNCHANGED <<invocations, seenProcessing, enqOrder, disk, env, tree, now, hook, service>>
AuthKeep == AuthObs /\ UNCHANGED <<API_KEYS, req>>

AuthNext ==
  \/ \E r \in Requests, b \in AuthBodyIds :
       Gate(r, Submit(b, MaxAuthJobs)) /\ AuthObs /\ UNCHANGED API_KEYS
  \/ \E r \in Requests, b \in AuthBodyIds, outcome \in AuthOutcomes :
       Gate(r, PostExtract(b, outcome)) /\ AuthObs /\ UNCHANGED API_KEYS
  \/ \E r \in Requests, jobId \in JobIds :
       Gate(r, GetStatus(jobId)) /\ AuthObs /\ UNCHANGED API_KEYS
  \/ \E r \in Requests, jobId \in JobIds :
       Gate(r, DeleteJob(jobId)) /\ AuthObs /\ UNCHANGED API_KEYS
  \/ UnknownRoute /\ AuthKeep
  \/ \E key \in GeneratedKeys : AddApiKey(key) /\ AuthObs /\ UNCHANGED req
  \/ \E key \in RevokedKeys :
       RemoveApiKey(key) /\ AuthObs /\ UNCHANGED req
  \/ \E r \in running : MkdirDone(r, FALSE) /\ AuthKeep
  \/ \E r \in running, ok \in BOOLEAN : RmDone(r, ok) /\ AuthKeep
  \/ \E t \in timers : RetryTimer(t) /\ AuthKeep

AuthSpec == AuthInit /\ [][AuthNext]_vars

(* ProgressSpec: one job and everything its children print: percentages  *)
(* below, at and above 100, ffmpeg times before, at and past the duration. *)
MaxProgressJobs == 1

ProgressPercents == {0, 50, 100, 250}

ProgressTimes == {<<0, 3>>, <<1, 3>>, <<3, 3>>, <<5, 3>>, <<1, 0>>}

ProgressNext ==
  \/ \E b \in ValidBodyIds : Submit(b, MaxProgressJobs) /\ FsKeep
  \/ \E r \in running, ok \in BOOLEAN : MkdirDone(r, ok) /\ FsKeep
  \/ \E r \in running, pct \in ProgressPercents : FetchStdout(r, pct) /\ FsKeep
  \/ \E r \in running, text \in StderrTexts : FetchStderr(r, text) /\ FsKeep
  \/ \E r \in running, code \in {0, 1}, found \in BOOLEAN : FetchClose(r, code, found) /\ FsKeep
  \/ \E r \in running, t \in ProgressTimes : TransformStderr(r, t) /\ FsKeep
  \/ \E r \in running, code \in {0, 1} : TransformClose(r, code) /\ FsKeep
  \/ \E r \in running, ok \in BOOLEAN : RenameDone(r, ok) /\ FsKeep
  \/ \E r \in running, ok \in BOOLEAN : StatDone(r, ok) /\ FsKeep
  \/ \E r \in running, ok \in BOOLEAN : RmDone(r, ok) /\ FsKeep
  \/ \E jobId \in JobIds, pct \in ProgressPercents : ZombieStdout(jobId, pct) /\ FsKeep
  \/ \E jobId \in JobIds : ZombieClose(jobId) /\ FsKeep
  \/ \E t \in timers : RetryTimer(t) /\ FsKeep

ProgressSpec == Init /\ [][ProgressNext]_vars

(* StageSpec: the stages of the Media Processor for every container the   *)
(* fetched file may have.                                                  *)
StageNext ==
  \/ \E b \in ValidBodyIds : Submit(b, MaxJobs) /\ FsKeep
  \/ \E r \in running, ok \in BOOLEAN : MkdirDone(r, ok) /\ FsKeep
  \/ \E r \in running, code \in {0, 1}, ext \in Containers \cup {Undef} :
       FetchCloseAs(r, code, ext) /\ FsKeep
  \/ \E r \in running, code \in {0, 1} : TransformClose(r, code) /\ FsKeep
  \/ \E r \in running, ok \in BOOLEAN : RenameDone(r, ok) /\ FsKeep
  \/ \E r \in running, ok \in BOOLEAN : StatDone(r, ok) /\ FsKeep
  \/ \E r \in running, ok \in BOOLEAN : RmDone(r, ok) /\ FsKeep
  \/ \E t \in timers : RetryTimer(t) /\ FsKeep

StageSpec == Init /\ [][StageNext]_vars

(* ClassifySpec: the fetch stage with every stderr text and exit code,    *)
(* with and without an output file, and the late exit of a child whose     *)
(* promise was rejected from its stderr.                                   *)
ExitCodes == {0, 1, 2}

ClassifyNext ==
  \/ \E b \in ValidBodyIds : Submit(b, MaxJobs) /\ FsKeep
  \/ \E r \in running, ok \in BOOLEAN : MkdirDone(r, ok) /\ FsKeep
  \/ \E r \in running, text \in MoreStderrTexts : FetchStderr(r, text) /\ FsKeep
  \/ \E r \in running : FetchError(r) /\ FsKeep
  \/ \E r \in running, code \in ExitCodes, ext \in {"mp4", Undef} :
       FetchCloseAs(r, code, ext) /\ FsKeep
  \/ \E r \in running, code \in {0, 1} : TransformClose(r, code) /\ FsKeep
  \/ \E r \in running : RenameDone(r, TRUE) /\ FsKeep
  \/ \E r \in running : StatDone(r, TRUE) /\ FsKeep
  \/ \E r \in running, ok \in BOOLEAN : RmDone(r, ok) /\ FsKeep
  \/ \E jobId \in JobIds : ZombieClose(jobId) /\ FsKeep
  \/ \E t \in timers : RetryTimer(t) /\ FsKeep

ClassifySpec == Init /\ [][ClassifyNext]_vars

(* OwnSpec: the Media Processor and the Retention Sweeper on the same     *)
(* disk: a sweep pass may run between any two events of a job.             *)
OwnNext ==
  \/ \E b \in ValidBodyIds : Submit(b, MaxJobs) /\ FsKeep
  \/ \E r \in running, ok \in BOOLEAN : MkdirFs(r, ok) /\ FsObs
  \/ \E r \in running : FetchError(r) /\ FsKeep
  \/ \E r \in running, code \in {0, 1}, found \in BOOLEAN : FetchClose(r, code, found) /\ FsKeep
  \/ \E r \in running, code \in {0, 1} : TransformClose(r, code) /\ FsKeep
  \/ \E r \in running, ok \in BOOLEAN : RenameDone(r, ok) /\ FsKeep
  \/ \E r \in running, ok \in BOOLEAN : StatDone(r, ok) /\ FsKeep
  \/ \E r \in running, ok \in BOOLEAN : RmFs(r, ok) /\ FsObs
  \/ \E t \in timers : RetryTimer(t) /\ FsKeep
  \/ \E stuck \in SUBSET JobIds : Sweep(stuck) /\ FsObs

OwnSpec == Init /\ [][OwnNext]_vars

(* TreeSpec: the retention sweeper on a temp directory found in any state: *)
(* each watched directory missing or holding up to MaxKids entries, files  *)
(* and directories two levels deep, young or older than both thresholds.   *)
MaxKids == 2

TreeAges == {0, 3660000}

ListingsOf(S) == UNION {[1..n -> S] : n \in 0..MaxKids}

Leaves == {File(0), Directory("e", 0, <<>>)}

Inner ==
  {File(age) : age \in TreeAges}
  \cup {Directory("e", age, kids) : age \in TreeAges, kids \in ListingsOf(Leaves)}

\* The entries of the second watched directory: one level deep.
Shallow == {File(age) : age \in TreeAges} \cup {Directory("e", 0, <<>>)}

\* A directory of the temp directory: missing (no entry) or with a listing.
Watched(name, S) ==
  {<<>>} \cup {<<Directory(name, 0, kids)>> : kids \in ListingsOf(S)}

TreeInit ==
  /\ jobs = <<>>
  /\ nextId = 1
  /\ queues = [q \in QueueNames |-> <<>>]
  /\ isProcessing = FALSE
  /\ running = {}
  /\ timers = {}
  /\ zombies = {}
  /\ ev = NoEv
  /\ invocations = [j \in JobIds |-> 0]
  /\ seenProcessing = {}
  /\ enqOrder = <<>>
  /\ disk = NoDisk
  /\ API_KEYS = StaticKeys
  /\ env = NoEnv
  /\ req = NoReq
  /\ now = 0
  /\ hook = NoHook
  /\ service = NoService
  /\ \E d \in Watched("downloads", Inner), p \in Watched("processing", Shallow),
        u \in {<<>>, <<Directory("uploads", 0, <<>>)>>} :
       tree = d \o p \o u

TreeNext ==
  \E stuck \in SUBSET (1..MaxKids), rmdirOk \in BOOLEAN :
    /\ SweepTree(stuck, rmdirOk)
    /\ UNCHANGED <<invocations, seenProcessing, enqOrder, disk, API_KEYS, env, req, now, hook, service>>

TreeSpec == TreeInit /\ [][TreeNext]_vars

(* EvictSpec: the Job Store under submissions, the processor, DELETE and   *)
(* the hourly cleanup, with a clock that passes the 24 hours of a record   *)
(* created at the start and of one created a day later.                    *)
ClockValues == {0, JobMaxAge, JobMaxAge + 1, 2 * JobMaxAge + 1}

EvictObs == UNCHANGED <<invocations, seenProcessing, enqOrder, disk, API_KEYS, env, req, tree, hook, service>>

EvictKeep == EvictObs /\ UNCHANGED now

EvictNext ==
  \/ \E b \in ValidBodyIds : Submit(b, MaxJobs) /\ EvictKeep
  \/ \E r \in running, ok \in BOOLEAN : MkdirDone(r, ok) /\ EvictKeep
  \/ \E r \in running, code \in {0, 1} : FetchClose(r, code, TRUE) /\ EvictKeep
  \/ \E r \in running, code \in {0, 1} : TransformClose(r, code) /\ EvictKeep
  \/ \E r \in running, ok \in BOOLEAN : RenameDone(r, ok) /\ EvictKeep
  \/ \E r \in running : StatDone(r, TRUE) /\ EvictKeep
  \/ \E r \in running, ok \in BOOLEAN : RmDone(r, ok) /\ EvictKeep
  \/ \E t \in timers : RetryTimer(t) /\ EvictKeep
  \/ \E jobId \in JobIds : DeleteJob(jobId) /\ EvictKeep
  \/ JobStoreCleanup /\ EvictKeep
  \/ \E t \in ClockValues : Tick(t) /\ EvictObs

EvictSpec == Init /\ [][EvictNext]_vars

(* LiveSpec: the queue under submissions and retries, every invocation of  *)
(* the Media Processor settling one way or the other, every timer firing.  *)
SettleStep ==
  \E r \in running :
    \/ \E ok \in BOOLEAN : MkdirDone(r, ok)
    \/ \E code \in {0, 1} : FetchClose(r, code, TRUE)
    \/ \E code \in {0, 1} : TransformClose(r, code)
    \/ \E ok \in BOOLEAN : RenameDone(r, ok)
    \/ StatDone(r, TRUE)
    \/ \E ok \in BOOLEAN : RmDone(r, ok)

TimerStep == \E t \in timers : RetryTimer(t)

LiveNext ==
  \/ \E b \in ValidBodyIds : Submit(b, MaxJobs) /\ ApiObs
  \/ SettleStep /\ ApiObs
  \/ TimerStep /\ ApiObs

\* Every fs call and child process ends and every timer fires.
LiveFairness == WF_vars(SettleStep /\ ApiObs) /\ WF_vars(TimerStep /\ ApiObs)

LiveSpec == Init /\ [][LiveNext]_vars /\ LiveFairness

(* GuardSpec: one JobQueue object used with two queue names, as add() and  *)
(* processQueue() take the name as a parameter; this.queues holds no list  *)
(* for a name before its first add, which processQueue treats as empty.   *)
GuardQueueNames == {"processVideo", "queueB"}

GuardInit ==
  /\ jobs = <<>>
  /\ nextId = 1
  /\ queues = [q \in GuardQueueNames |-> <<>>]
  /\ isProcessing = FALSE
  /\ running = {}
  /\ timers = {}
  /\ zombies = {}
  /\ ev = NoEv
  /\ invocations = [j \in JobIds |-> 0]
  /\ seenProcessing = {}
  /\ enqOrder = <<>>
  /\ disk = NoDisk
  /\ API_KEYS = StaticKeys
  /\ env = NoEnv
  /\ req = NoReq
  /\ tree = TempDirectories
  /\ now = 0
  /\ hook = NoHook
  /\ service = NoService

GuardNext ==
  \/ \E q \in GuardQueueNames : nextId <= MaxQueueJobs /\ AddTo(q) /\ ApiObs
  \/ SettleStep /\ ApiObs
  \/ TimerStep /\ ApiObs

GuardSpec == GuardInit /\ [][GuardNext]_vars /\ LiveFairness

(* GoneSpec: one job through every event of the Job Runner, with DELETE,   *)
(* the clock and the Job Store cleanup at any moment.                      *)
GoneNext ==
  \/ \E b \in ValidBodyIds : Submit(b, MaxProgressJobs) /\ EvictKeep
  \/ \E jobId \in JobIds : DeleteJob(jobId) /\ EvictKeep
  \/ \E r \in running, ok \in BOOLEAN : MkdirDone(r, ok) /\ EvictKeep
  \/ \E r \in running, pct \in FetchPercents : FetchStdout(r, pct) /\ EvictKeep
  \/ \E r \in running, text \in StderrTexts : FetchStderr(r, text) /\ EvictKeep
  \/ \E r \in running, code \in {0, 1} : FetchClose(r, code, TRUE) /\ EvictKeep
  \/ \E r \in running, t \in TransformTimes : TransformStderr(r, t) /\ EvictKeep
  \/ \E r \in running, code \in {0, 1} : TransformClose(r, code) /\ EvictKeep
  \/ \E r \in running, ok \in BOOLEAN : RenameDone(r, ok) /\ EvictKeep
  \/ \E r \in running : StatDone(r, TRUE) /\ EvictKeep
  \/ \E r \in running, ok \in BOOLEAN : RmDone(r, ok) /\ EvictKeep
  \/ \E jobId \in JobIds, pct \in FetchPercents : ZombieStdout(jobId, pct) /\ EvictKeep
  \/ \E jobId \in JobIds : ZombieClose(jobId) /\ EvictKeep
  \/ \E t \in timers : RetryTimer(t) /\ EvictKeep
  \/ JobStoreCleanup /\ EvictKeep
  \/ \E t \in ClockValues : Tick(t) /\ EvictObs

GoneSpec == Init /\ [][GoneNext]_vars

(* OutputSpec: one job, its output file in the downloads directory, the    *)
(* clock, the retention sweeper and the Job Store cleanup.                 *)
OutputClock == {0, DownloadsMaxAge, DownloadsMaxAge + 1, JobMaxAge + 1}

OutputObs == UNCHANGED <<invocations, seenProcessing, enqOrder, API_KEYS, env, req, tree, hook, service>>

OutputKeep == OutputObs /\ UNCHANGED <<disk, now>>

OutputNext ==
  \/ \E b \in ValidBodyIds : Submit(b, MaxProgressJobs) /\ OutputKeep
  \/ \E jobId \in JobIds : GetStatus(jobId) /\ OutputKeep
  \/ \E r \in running, ok \in BOOLEAN : MkdirFs(r, ok) /\ OutputObs /\ UNCHANGED now
  \/ \E r \in running, code \in {0, 1} : FetchClose(r, code, TRUE) /\ OutputKeep
  \/ \E r \in running, code \in {0, 1} : TransformFs(r, code) /\ OutputObs /\ UNCHANGED now
  \/ \E r \in running, ok \in BOOLEAN : RenameFs(r, ok) /\ OutputObs /\ UNCHANGED now
  \/ \E r \in running : StatDone(r, TRUE) /\ OutputKeep
  \/ \E r \in running, ok \in BOOLEAN : RmFs(r, ok) /\ OutputObs /\ UNCHANGED now
  \/ \E t \in timers : RetryTimer(t) /\ OutputKeep
  \/ Sweep({}) /\ OutputObs /\ UNCHANGED now
  \/ JobStoreCleanup /\ OutputKeep
  \/ \E t \in OutputClock : TickDisk(t) /\ OutputObs

OutputSpec == Init /\ [][OutputNext]_vars

(* HookSpec: the page's form submitted with each URL of Urls.              *)
HookObs == UNCHANGED <<invocations, seenProcessing, enqOrder, disk, API_KEYS, env, req, tree, now, service>>

HookNext ==
  \/ \E url \in Urls : FetchVideoInfo(url) /\ HookObs
  \/ FetchVideoInfoDone /\ HookObs
  \/ Reset /\ HookObs

HookSpec == Init /\ [][HookNext]_vars

(* ServiceSpec: start() and stop() of the cleanup service called at any    *)
(* moment, the timers firing when due; at most MaxTimers timers are ever   *)
(* registered.                                                             *)
MaxTimers == 3

ServiceClock == {600000, CleanupInterval, CleanupInterval + 600000,
                 2 * CleanupInterval, 2 * CleanupInterval + 600000}

ServiceObs == UNCHANGED <<invocations, seenProcessing, enqOrder, disk, API_KEYS, env, req, hook>>

ServiceNext ==
  \/ \E stuck \in SUBSET {1}, rmdirOk \in BOOLEAN :
       /\ service.nextTimer <= MaxTimers
       /\ Start(stuck, rmdirOk) /\ ServiceObs /\ UNCHANGED now
  \/ Stop /\ ServiceObs /\ UNCHANGED now
  \/ \E timer \in service.registered, stuck \in SUBSET {1}, rmdirOk \in BOOLEAN :
       IntervalFires(timer, stuck, rmdirOk) /\ ServiceObs /\ UNCHANGED now
  \/ \E t \in ServiceClock : ServiceTick(t) /\ ServiceObs /\ UNCHANGED service

ServiceSpec == Init /\ [][ServiceNext]_vars

(* RetrySpec: a Media Processor that fails every time (the tools are       *)
(* missing, the video is private, yt-dlp exits non-zero). The calls of     *)
(* downloadAndProcessVideo are counted.                                    *)
RetryObs == CountInvocations /\ UNCHANGED <<seenProcessing, enqOrder, disk, API_KEYS, env, req, tree, now, hook, service>>

\* The events that take job jobId's call to its rejection.
FailingStep(jobId) ==
  \E r \in running :
    /\ r.job.data.jobId = jobId
    /\ \/ \E ok \in BOOLEAN : MkdirDone(r, ok)
       \/ FetchError(r)
       \/ FetchStderr(r, "ERROR: Private video")
       \/ FetchClose(r, 1, FALSE)
       \/ \E ok \in BOOLEAN : RmDone(r, ok)

RetryTimerOf(jobId) == \E t \in timers : t.data.jobId = jobId /\ RetryTimer(t)

RetryNext ==
  \/ \E b \in ValidBodyIds : Submit(b, MaxJobs) /\ RetryObs
  \/ \E jobId \in JobIds : GetStatus(jobId) /\ RetryObs
  \/ \E jobId \in JobIds : FailingStep(jobId) /\ RetryObs
  \/ \E r \in running, pct \in FetchPercents : FetchStdout(r, pct) /\ RetryObs
  \/ \E jobId \in JobIds, pct \in FetchPercents : ZombieStdout(jobId, pct) /\ RetryObs
  \/ \E jobId \in JobIds : ZombieClose(jobId) /\ RetryObs
  \/ \E jobId \in JobIds : RetryTimerOf(jobId) /\ RetryObs

\* Every fs call and child process ends and every timer fires.
RetryFairness ==
  \A jobId \in JobIds :
    /\ WF_vars(FailingStep(jobId) /\ RetryObs)
    /\ WF_vars(RetryTimerOf(jobId) /\ RetryObs)

RetrySpec == Init /\ [][RetryNext]_vars /\ RetryFairness

(* ------------------------------ properties ------------------------------ *)

present(jobId) == has(jobs, jobId)

\* The step is the DELETE request for jobId, answered from the state before it.
isDeleteOf(jobId) ==
  /\ present(jobId)
  /\ ev'.op = "delete" /\ ev'.id = jobId /\ ev'.status = jobs[jobId].status

\* The work of jobId is waiting, running or scheduled.
hasWork(jobId) ==
  \/ \E i \in 1..Len(queues["processVideo"]) : queues["processVideo"][i].data.jobId = jobId
  \/ \E r \in running : r.job.data.jobId = jobId
  \/ \E t \in timers : t.data.jobId = jobId

(* C1: a job whose Media Processor invocation fails every time is given    *)
(* exactly 3 invocations; a 4th invocation never starts.                   *)
C1_RetryBound == \A jobId \in JobIds : invocations[jobId] <= DownloadAttempts

(* C2: a job whose every invocation fails eventually has status failed,    *)
(* with error and failedAt set.                                            *)
C2_TerminalFailure ==
  \A jobId \in JobIds :
    present(jobId) ~>
      (/\ present(jobId)
       /\ jobs[jobId].status = "failed"
       /\ jobs[jobId].error # Undef
       /\ jobs[jobId].failedAt # Undef)

(* C3: after the k-th failed attempt (k below the attempt bound) the retry *)
(* is scheduled backoff.delay * 2^(k-1) ms later: 5000 ms, then 10000 ms.  *)
C3_ExponentialBackoff ==
  \A t \in timers :
    LET k == invocations[t.data.jobId]
    IN  k < DownloadAttempts =>
          t.backoffDelay = DownloadBackoffDelay * Pow2(k - 1)

(* C4: a record's status changes only queued -> processing,                *)
(* processing -> completed or failed, queued or processing -> cancelled;   *)
(* completed, failed and cancelled never change.                           *)
AllowedTransitions ==
  { <<"queued", "processing">>, <<"processing", "completed">>,
    <<"processing", "failed">>, <<"queued", "cancelled">>,
    <<"processing", "cancelled">> }

C4_StatusTransitions ==
  [][\A jobId \in JobIds :
       (present(jobId) /\ has(jobs', jobId)
          /\ jobs'[jobId].status # jobs[jobId].status)
       => <<jobs[jobId].status, jobs'[jobId].status>> \in AllowedTransitions]_vars

(* C5: once a record is cancelled, its status never becomes processing,    *)
(* completed or failed again.                                              *)
C5_NoResurrection ==
  [][\A jobId \in JobIds :
       (present(jobId) /\ jobs[jobId].status = "cancelled" /\ has(jobs', jobId))
       => jobs'[jobId].status = "cancelled"]_vars

(* C6: DELETE on a completed or failed job removes the record and neither  *)
(* re-enqueues nor restarts work; a removed record never returns and a     *)
(* status query for an absent id answers 404.                              *)
C6_DeleteTerminal ==
  [][/\ \A jobId \in JobIds :
          (isDeleteOf(jobId) /\ jobs[jobId].status \in {"completed", "failed"})
          => /\ ev'.code = 200
             /\ ~ has(jobs', jobId)
             /\ UNCHANGED <<queues, running, timers, isProcessing>>
     /\ \A jobId \in JobIds :
          (jobId < nextId /\ ~ present(jobId)) => ~ has(jobs', jobId)
     /\ (ev'.op = "status" /\ ~ has(jobs', ev'.id)) => ev'.code = 404]_vars

C6_Witness ==
  /\ ev.op = "delete" /\ ev.code = 200 /\ ev.status = "completed"
  /\ ~ present(ev.id)
  /\ ~ hasWork(ev.id)

(* C7: at most one Media Processor invocation is in flight at any time;    *)
(* a submission arriving while one runs starts no second drain loop.       *)
C7_Serialized == Cardinality(running) <= 1

C7_Witness ==
  /\ Cardinality(running) = 1
  /\ Len(queues["processVideo"]) >= 2

(* C8: invocations start in the order of the add() calls: the job that     *)
(* starts is the oldest one waiting, and it starts only when every earlier *)
(* invocation has settled.                                                 *)
C8_Fifo ==
  [][startedNow # {} =>
       /\ startedNow = {Head(enqOrder \o addedNow)}
       /\ \A r \in running' : r.job.data.jobId \in startedNow]_vars

C8_Witness ==
  /\ Len(enqOrder) >= 2
  /\ enqOrder[1] > enqOrder[2]
  /\ enqOrder = [i \in 1..Len(queues["processVideo"]) |->
                   queues["processVideo"][i].data.jobId]
  /\ \E r \in running : \A i \in 1..Len(enqOrder) : r.job.data.jobId # enqOrder[i]

(* C9: a record never goes from queued to completed in one step; completed *)
(* is stored, and answered to a poll, only after the stored status has     *)
(* been processing.                                                        *)
C9_NoSkippedState ==
  [][/\ \A jobId \in JobIds :
          (present(jobId) /\ has(jobs', jobId) /\ jobs[jobId].status = "queued")
          => jobs'[jobId].status # "completed"
     /\ \A jobId \in JobIds :
          (has(jobs', jobId) /\ jobs'[jobId].status = "completed")
          => jobId \in seenProcessing'
     /\ (ev'.op = "status" /\ ev'.status = "completed")
          => ev'.id \in seenProcessing']_vars

C9_Witness ==
  /\ ev.op = "status" /\ ev.code = 200 /\ ev.status = "completed"
  /\ ev.id \in seenProcessing

(* C10: POST /download and POST /extract with a URL that is not well       *)
(* formed or not from a supported platform, or with an invalid quality,    *)
(* removeWatermark or format, answer 400, leave the store and the queue as *)
(* they were and start no external process.                                *)
urlRejected ==
  [b \in BodyIds |->
     ~ isURL(Bodies[b].url) \/ detectPlatform(Bodies[b].url) = "unknown"]

optionsRejected ==
  [b \in BodyIds |->
     \/ Bodies[b].quality \notin Qualities \cup {Undef}
     \/ Bodies[b].removeWatermark \notin Booleans \cup {Undef}
     \/ Bodies[b].format \notin Formats \cup {Undef}]

C10_FailFast ==
  [][\A b \in BodyIds :
       (/\ ev'.req = b
        /\ \/ ev'.op = "extract" /\ urlRejected[b]
           \/ ev'.op = "download" /\ (urlRejected[b] \/ optionsRejected[b]))
       => /\ ev'.code = 400
          /\ ev'.exec = FALSE
          /\ UNCHANGED <<jobs, nextId, queues, isProcessing, running, timers, zombies>>]_vars

C10_Witness ==
  /\ ev.op = "download" /\ ev.code = 400 /\ urlRejected[ev.req]
  /\ running # {}
  /\ Len(queues["processVideo"]) >= 1

\* The call of downloadAndProcessVideo that r stands for settles in the step.
settlesNow(r) == \A x \in running' : x.job.data.jobId # r.job.data.jobId

(* C11: a Media Processor call settles only out of the removal of its      *)
(* scratch subdirectory, whatever stage it succeeded or failed in; unless  *)
(* that removal failed (which is logged) the subdirectory is gone, and the *)
(* job ends as the call's result or error says, removal failed or not.     *)
C11_ScratchRemoval ==
  [][\A r \in running :
       settlesNow(r) =>
         LET jobId == r.job.data.jobId
         IN  /\ r.stage = "rm"
             /\ ev' # Warned => ~ scratchExists(disk', jobId)
             /\ has(jobs', jobId) =>
                  IF r.err = Undef
                  THEN /\ jobs'[jobId].status = "completed"
                       /\ jobs'[jobId].fileSize = r.size
                       /\ jobs'[jobId].error = Undef
                  ELSE /\ jobs'[jobId].status # "completed"
                       /\ jobs'[jobId].downloadUrl = Undef
                       /\ \/ \E t \in timers' \ timers : t.data.jobId = jobId
                          \/ /\ jobs'[jobId].status = "failed"
                             /\ jobs'[jobId].error = r.err]_vars

C11_Witness ==
  /\ ev = Warned
  /\ \E jobId \in DOMAIN jobs :
       /\ jobs[jobId].status = "completed"
       /\ scratchExists(disk, jobId)
  /\ \E jobId \in DOMAIN jobs :
       /\ \E t \in timers : t.data.jobId = jobId
       /\ ~ scratchExists(disk, jobId)

(* C12: in one sweep pass an immediate entry of the downloads directory is *)
(* deleted if and only if its age is strictly greater than 60 minutes, and *)
(* an immediate entry of the scratch directory if and only if its age is   *)
(* strictly greater than 30 minutes.                                       *)
C12_SweepThreshold ==
  [][ev' = Swept =>
       /\ \A e \in disk.downloads :
            e \notin disk'.downloads <=> e.age > 60 * 60000
       /\ \A e \in disk.processing :
            e \notin disk'.processing <=> e.age > 30 * 60000]_vars

\* Platform p has a domain substring in url; one of its patterns matches url.
domainIn(p, url) ==
  \E d \in 1..Len(SUPPORTED_PLATFORMS[p].domains) :
    includes(toLowerCase(url), SUPPORTED_PLATFORMS[p].domains[d])

patternOn(p, url) ==
  \E k \in 1..Len(SUPPORTED_PLATFORMS[p].patterns) :
    test(SUPPORTED_PLATFORMS[p].patterns[k], url)

PlatformIds == 1..Len(SUPPORTED_PLATFORMS)

(* C13 as stated: for every platform P, a URL that contains one of P's     *)
(* domain substrings but matches none of P's patterns is detected as       *)
(* 'unknown'.                                                              *)
C13_DomainWithoutPattern ==
  ev.op = "detect" =>
    \A p \in PlatformIds :
      (domainIn(p, ev.url) /\ ~ patternOn(p, ev.url)) => ev.status = "unknown"

(* C13 amended: for every platform P, a URL that contains one of P's       *)
(* domain substrings but matches none of P's patterns is never detected as *)
(* P, and is detected as 'unknown' unless some other platform has both a   *)
(* domain substring in the URL and a pattern matching it.                  *)
C13_DomainWithoutPatternAmended ==
  ev.op = "detect" =>
    \A p \in PlatformIds :
      (domainIn(p, ev.url) /\ ~ patternOn(p, ev.url)) =>
        /\ ev.status # SUPPORTED_PLATFORMS[p].name
        /\ (\A q \in PlatformIds : ~ (domainIn(q, ev.url) /\ patternOn(q, ev.url)))
             => ev.status = "unknown"

C13_Witness ==
  /\ ev.op = "detect"
  /\ ev.url = "https://www.tiktok.com/foo"
  /\ ev.status = "unknown"

(* C14: for every quality value the --format selector of the fetch is     *)
(* 'best[height<=360]' for 360p, 'best[height<=720]' for 720p,             *)
(* 'best[height<=1080]' for 1080p and plain 'best' for original, best, a   *)
(* missing value and any other value.                                      *)
C14_QualitySelector ==
  \A r \in running :
    r.stage \in {"fetch", "transform", "rename", "stat"} =>
      LET quality == r.job.data.quality
      IN  /\ quality = "360p" => r.qualityFormat = "best[height<=360]"
          /\ quality = "720p" => r.qualityFormat = "best[height<=720]"
          /\ quality = "1080p" => r.qualityFormat = "best[height<=1080]"
          /\ quality \notin {"360p", "720p", "1080p"} => r.qualityFormat = "best"

C14_Witness ==
  \E r \in running :
    /\ r.stage = "fetch" /\ r.job.data.quality = "4k" /\ r.qualityFormat = "best"
    /\ \E i \in 1..Len(queues["processVideo"]) :
         queues["processVideo"][i].data.quality = "1080p"

(* C15: when metadata extraction fails with Timeout the extract endpoint   *)
(* answers 408, when it fails with PrivateOrUnavailable 403 or 410, and    *)
(* for any other extraction failure 500.                                   *)
C15_ExtractTaxonomy ==
  (ev.op = "extract" /\ ev.exec /\ ev.code # 200) =>
    IF startsWith(ev.status, "Video extraction timed out")
    THEN ev.code = 408
    ELSE IF startsWith(ev.status, "This video is private or not available")
    THEN ev.code \in {403, 410}
    ELSE ev.code = 500

\* C16: every HTTP response with a status of 400 or more has a body with
\* success = false, an error field and a message field.
C16_ErrorShape ==
  ev.code >= 400 =>
    /\ {"success", "error", "message"} \subseteq ev.body.fields
    /\ ev.body.success = FALSE

\* The routes behind the gate, by the op of their responses.
VideoOps == {"download", "extract", "status", "delete"}

\* The gate is open to every request: development with SKIP_AUTH.
authSkipped == env.NODE_ENV = "development" /\ env.SKIP_AUTH = "true"

\* The credentials of the request of the step, or none, are in the key set.
keyPresented == {req'.header, req'.query} \cap API_KEYS # {}

C18_AttemptThreading ==
  \A r \in running :
    invocations[r.job.data.jobId] < MaxInvocations
      => r.job.attempt = invocations[r.job.data.jobId]

beginsNow(j) ==
  \E r \in running' \ running : r.job.data.jobId = j /\ r.stage = "mkdir"

\* C20: in the step that schedules a failed item's retry the drain loop
\* goes on: the next queued item, if any, is dequeued and its execution
\* begins while the timer is pending, and with no item left the drain
\* ends. In the step of a retry timer the item is appended behind every
\* item in the queue; if no drain is active a new drain starts and takes
\* it at once.
C20_RetryDoesNotBlock ==
  [][LET q == queues["processVideo"]
         q2 == queues'["processVideo"]
     IN  /\ \A t \in timers' \ timers :
              IF Len(q) > 0
              THEN /\ q2 = Tail(q)
                   /\ beginsNow(Head(q).data.jobId)
                   /\ isProcessing'
              ELSE /\ q2 = <<>>
                   /\ ~isProcessing'
                   /\ running' \ running = {}
         /\ \A t \in timers \ timers' :
              IF isProcessing
              THEN /\ Len(q2) = Len(q) + 1
                   /\ SubSeq(q2, 1, Len(q)) = q
                   /\ q2[Len(q2)].data.jobId = t.data.jobId
                   /\ running' = running
              ELSE /\ isProcessing'
                   /\ beginsNow(t.data.jobId)
                   /\ q2 = <<>>
    ]_vars

\* The retry of job 1 is pending and its timer has not fired, while the
\* drain has gone on to job 2 with job 3 behind it.
C20_Witness ==
  /\ \E t \in timers : t.data.jobId = 1
  /\ \E r \in running : r.job.data.jobId = 2
  /\ Len(queues["processVideo"]) = 1
  /\ queues["processVideo"][1].data.jobId = 3

\* C21: a failed attempt with attempts remaining (a retry is scheduled)
\* leaves the record's status, error and failure timestamp as they were;
\* the error field of a record changes only in a step that takes its
\* status to `failed`.
C21_OnlyTerminalSurfaced ==
  [][\A j \in JobIds :
       (has(jobs, j) /\ has(jobs', j)) =>
         /\ (\E t \in timers' \ timers : t.data.jobId = j) =>
              /\ jobs'[j].status = jobs[j].status
              /\ jobs'[j].error = jobs[j].error
              /\ jobs'[j].failedAt = jobs[j].failedAt
         /\ jobs'[j].error # jobs[j].error =>
              jobs'[j].status = "failed" /\ jobs[j].status # "failed"
    ]_vars

\* An attempt of job 1 has failed with attempts remaining: its retry is
\* pending and its record shows no failure.
C21_Witness ==
  /\ \E t \in timers : t.data.jobId = 1
  /\ has(jobs, 1) /\ jobs[1].status = "processing" /\ jobs[1].error = Undef

\* C22: in every reachable state a `completed` record has progress 100, a
\* downloadUrl, a fileSize and a completion timestamp; a `failed` record
\* has a non-empty error and a failure timestamp; no record has both a
\* downloadUrl and an error.
C22_ResultConsistency ==
  \A j \in DOMAIN jobs :
    /\ jobs[j].status = "completed" =>
         /\ jobs[j].progress = 100
         /\ jobs[j].downloadUrl # Undef
         /\ jobs[j].fileSize # Undef
         /\ jobs[j].completedAt # Undef
    /\ jobs[j].status = "failed" =>
         /\ jobs[j].error # Undef /\ jobs[j].error # ""
         /\ jobs[j].failedAt # Undef
    /\ ~(jobs[j].downloadUrl # Undef /\ jobs[j].error # Undef)

\* The stage the execution of job j is in; "none" when none is running.
stageOf(R, j) ==
  IF \E r \in R : r.job.data.jobId = j
  THEN (CHOOSE r \in R : r.job.data.jobId = j).stage
  ELSE "none"

\* C23: every progress value written to a record lies in 0..100; a value
\* written while the job's fetch stage runs is at most 50; a value written
\* while its transform stage runs lies in 50..95; 100 is written only
\* when fetch and transform (or relocation) have succeeded.
C23_ProgressBands ==
  [][\A j \in JobIds :
       (has(jobs, j) /\ has(jobs', j) /\ jobs'[j].progress # jobs[j].progress) =>
         LET p == jobs'[j].progress IN
         /\ p \in 0..100
         /\ stageOf(running', j) = "fetch" => p <= 50
         /\ stageOf(running', j) = "transform" => p \in 50..95
         /\ p = 100 =>
              stageOf(running', j) = "stat" \/ jobs'[j].status = "completed"
    ]_vars

\* C24: when the fetch of a job succeeds, the transform stage is entered
\* if and only if watermark removal is requested or the requested format
\* differs from the container of the fetched file; otherwise the file is
\* relocated.
C24_TransformCondition ==
  [][\A r \in running, r2 \in running' :
       (/\ r.stage = "fetch"
        /\ r2.job.data.jobId = r.job.data.jobId
        /\ r2.stage \in {"transform", "rename"})
       => (r2.stage = "transform"
             <=> (r.job.data.removeWatermark = "true"
                    \/ r.job.data.format # r2.container))
    ]_vars

\* The stderr texts with 'Private video' or 'Video unavailable' in them,
\* and those with 'Unsupported URL'.
PrivateTexts ==
  {t \in MoreStderrTexts :
     includes(t, "Private video") \/ includes(t, "Video unavailable")}

UnsupportedTexts ==
  {t \in MoreStderrTexts \ PrivateTexts : includes(t, "Unsupported URL")}

\* C25: the fetch stage settles once. Stderr text with 'Private video' or
\* 'Video unavailable' fails it as private/unavailable, text with
\* 'Unsupported URL' as unsupported, other text settles nothing; a
\* non-zero exit fails it with the exit-code error; exit 0 with an output
\* file succeeds; the exit of a child whose text was classified changes
\* nothing.
C25_FetchClassification ==
  [][/\ \A r \in running :
          r.stage = "fetch" =>
            LET after == {x \in running' : x.job.data.jobId = r.job.data.jobId}
                failsWith(m) ==
                  /\ after # {}
                  /\ \A x \in after : x.stage = "rm" /\ x.err = m
            IN  /\ ev'.stderr \in PrivateTexts =>
                     failsWith("This video is private or unavailable")
                /\ ev'.stderr \in UnsupportedTexts =>
                     failsWith("This URL is not supported")
                /\ (ev'.stderr # "" /\ ev'.stderr \notin PrivateTexts \cup UnsupportedTexts)
                     => r \in running'
                /\ ev'.exit > 0 =>
                     failsWith("yt-dlp exited with code " \o ToString(ev'.exit))
                /\ (ev'.exit = 0 /\ ev'.file # Undef) =>
                     /\ after # {}
                     /\ \A x \in after :
                          x.stage \in {"transform", "rename"} /\ x.err = Undef
     /\ zombies' # zombies /\ zombies' \subseteq zombies =>
          running' = running /\ jobs' = jobs /\ timers' = timers
    ]_vars

\* A fetch was failed from its stderr as private/unavailable, and the child
\* has since exited: its exit code came after the verdict.
C25_Witness ==
  \E r \in running :
    /\ r.stage = "rm"
    /\ r.err = "This video is private or unavailable"
    /\ r.job.data.jobId \notin zombies

\* C26: while a Media Processor call for a job is in flight (its scratch
\* directory made, its own removal not yet begun), no step removes the
\* job's scratch subdirectory.
C26_ScratchOwnership ==
  [][\A r \in running :
       (/\ r.stage \in {"fetch", "transform", "rename", "stat"}
        /\ scratchExists(disk, r.job.data.jobId))
       => scratchExists(disk', r.job.data.jobId)
    ]_vars

RECURSIVE noEmptyDirectory(_)
\* No directory of the listing, at any depth, is empty.
noEmptyDirectory(entries) ==
  \A i \in 1..Len(entries) :
    entries[i].isDirectory =>
      entries[i].kids # <<>> /\ noEmptyDirectory(entries[i].kids)

listingOf(t, name) ==
  LET at == {i \in 1..Len(t) : t[i].name = name}
  IN  IF at = {} THEN <<>> ELSE t[CHOOSE i \in at : TRUE].kids

\* The positions of a listing whose entry is a file older than maxAge.
oldFiles(listing, maxAge) ==
  {i \in 1..Len(listing) : ~listing[i].isDirectory /\ listing[i].age > maxAge}

\* The positions of a listing whose entry is older than maxAge.
oldEntries(listing, maxAge) ==
  {i \in 1..Len(listing) : listing[i].age > maxAge}

\* What C28 says of one watched directory in one pass.
absorbed(name, maxAge, deleted) ==
  LET before == listingOf(tree, name)
      after == listingOf(tree', name)
      faults == ev'.sweep.stuck
  IN  /\ name \in ev'.sweep.missing => deleted = 0
      /\ deleted = Cardinality(oldEntries(before, maxAge) \ faults)
      /\ Cardinality(oldFiles(after, maxAge))
           = Cardinality(oldFiles(before, maxAge) \cap faults)

\* C28: every sweep pass ends with its log; a watched directory that is
\* missing counts zero deletions while the other one is still swept; an
\* entry whose stat or delete throws is left in place and not counted, and
\* every other entry of the directory older than the threshold is deleted
\* and counted.
C28_ErrorAbsorption ==
  [][ev'.op = "sweeptree" =>
       /\ absorbed("downloads", DownloadsMaxAge, ev'.sweep.downloadsDeleted)
       /\ absorbed("processing", ProcessingMaxAge, ev'.sweep.processingDeleted)]_vars

\* A pass found the downloads directory missing, met a fault on the first
\* entry of the processing directory and still deleted the second one.
C28_Witness ==
  /\ ev.op = "sweeptree"
  /\ "downloads" \in ev.sweep.missing
  /\ ev.sweep.stuck = {1}
  /\ ev.sweep.downloadsDeleted = 0
  /\ ev.sweep.processingDeleted = 1
  /\ Len(listingOf(tree, "processing")) = 1

\* The statuses a record is evicted in.
EvictableStatuses == {"completed", "failed"}

\* C29: a pass of the Job Store cleanup deletes a record if and only if
\* its status is completed or failed and it was created more than 24
\* hours before; every other record stays as it was, whatever its age.
C29_AgeEviction ==
  [][ev'.op = "jobcleanup" =>
       /\ DOMAIN jobs' \subseteq DOMAIN jobs
       /\ \A jobId \in DOMAIN jobs :
            /\ jobId \notin DOMAIN jobs'
                 <=> /\ jobs[jobId].status \in EvictableStatuses
                     /\ now - jobs[jobId].createdAt > 24 * 60 * 60 * 1000
            /\ jobId \in DOMAIN jobs' => jobs'[jobId] = jobs[jobId]]_vars

\* A pass evicted a record and left another one of more than 24 hours
\* that is queued, processing or cancelled.
C29_Witness ==
  /\ ev.op = "jobcleanup"
  /\ ev.evicted # {}
  /\ \E jobId \in DOMAIN jobs :
       /\ now - jobs[jobId].createdAt > 24 * 60 * 60 * 1000
       /\ jobs[jobId].status \in {"queued", "processing", "cancelled"}

\* The platforms with a domain substring in url and a pattern matching it.
satisfying(url) == {p \in PlatformIds : domainIn(p, url) /\ patternOn(p, url)}

\* new URL(...) of validateUrl accepts url.
parses(url) == UrlParses(IF startsWith(url, "http") THEN url ELSE "https://" \o url)

\* C30: detectPlatform returns the name of a platform only if the URL has
\* one of its domain substrings and matches one of its patterns, and then
\* the first such platform of the table; it returns 'unknown' exactly when
\* there is none; validateUrl is true exactly when the URL parses and
\* detectPlatform is not 'unknown'.
C30_MatchingRule ==
  ev.op = "match" =>
    /\ ev.status = "unknown" <=> satisfying(ev.url) = {}
    /\ ev.status # "unknown" =>
         \E p \in satisfying(ev.url) :
           /\ ev.status = SUPPORTED_PLATFORMS[p].name
           /\ \A q \in satisfying(ev.url) : p <= q
    /\ ev.valid <=> (parses(ev.url) /\ ev.status # "unknown")

\* A URL that satisfies TikTok and Twitter/X is detected as TikTok, the
\* first of the two in the table, and is valid.
C30_Witness ==
  /\ ev.op = "match"
  /\ Cardinality(satisfying(ev.url)) = 2
  /\ ev.url = "https://x.com/u/status/1?u=tiktok.com/@a/video/1"
  /\ ev.status = "TikTok"
  /\ ev.valid

\* The band of heights of each tier.
inBand(height, q) ==
  IF q = "360p" THEN height >= 1 /\ height <= 360
  ELSE IF q = "720p" THEN height >= 361 /\ height <= 720
  ELSE IF q = "1080p" THEN height >= 721 /\ height <= 1080
  ELSE height > 1080

\* C31: the available-quality list has no duplicates and is ascending,
\* and a tier is in it exactly when the height of some format falls in
\* the band of the tier, the banding of the filesize map.
C31_QualityTiers ==
  ev.op = "info" =>
    /\ \A i, k \in 1..Len(ev.qualities) :
         i < k => order[ev.qualities[i]] < order[ev.qualities[k]]
    /\ \A q \in DOMAIN order :
         (\E i \in 1..Len(ev.qualities) : ev.qualities[i] = q)
           <=> \E f \in 1..Len(ev.formats) : inBand(ev.formats[f].height, q)
    /\ \A q \in DOMAIN ev.sizes :
         \E f \in 1..Len(ev.formats) :
           /\ inBand(ev.formats[f].height, q)
           /\ ev.formats[f].filesize = ev.sizes[q]

\* A Work Item of job jobId is in the processVideo queue.
waiting(jobId) ==
  \E i \in 1..Len(queues["processVideo"]) :
    queues["processVideo"][i].data.jobId = jobId

\* C32: every Work Item in the processVideo queue, added by a submission
\* or by a retry timer, is eventually taken from the queue and started,
\* and no item is in the queue unless a drain is running.
C32_QueueLiveness ==
  /\ \A jobId \in JobIds : waiting(jobId) ~> ~ waiting(jobId)
  /\ [](queues["processVideo"] # <<>> => (isProcessing /\ running # {}))

\* A retry timer added the Work Item of a job while the drain was busy
\* with another job: the item waits, its record already says processing.
C32_Witness ==
  \E jobId \in JobIds :
    /\ waiting(jobId)
    /\ has(jobs, jobId) /\ jobs[jobId].status = "processing"
    /\ \E r \in running : r.job.data.jobId # jobId

\* A Work Item of job jobId is in the queue called queueName.
waitingIn(queueName, jobId) ==
  \E i \in 1..Len(queues[queueName]) : queues[queueName][i].data.jobId = jobId

invoked(R, jobId) == \E r \in R : r.job.data.jobId = jobId

\* C34: a job whose record says cancelled and whose Work Item has not
\* been started (it waits in the queue or on a retry timer) is not passed
\* to the Media Processor.
C34_CancelledNotStarted ==
  [][\A jobId \in JobIds :
       (/\ has(jobs, jobId)
        /\ jobs[jobId].status = "cancelled"
        /\ ~ invoked(running, jobId))
         => ~ invoked(running', jobId)]_vars

\* The events of the Job Runner: start, progress, settling, retry.
RunnerOps == {"internal", "warn"}

\* C35: a job id whose record has been removed from the Job Store has no
\* record again after any event of the Job Runner (start, progress
\* callback, success, failure, retry).
C35_StaysDeleted ==
  [][\A jobId \in JobIds :
       (jobId < nextId /\ ~ has(jobs, jobId) /\ ev'.op \in RunnerOps)
         => ~ has(jobs', jobId)]_vars

\* The record of job 1 is gone and the Job Runner has just started the
\* job once more, from its retry timer.
C35_Witness ==
  /\ nextId > 1
  /\ ~ has(jobs, 1)
  /\ ev.op \in RunnerOps
  /\ \E r \in running : r.job.data.jobId = 1 /\ r.stage = "mkdir"

\* C36: whenever a record of the Job Store is completed with a
\* downloadUrl, the file the URL names is in the downloads directory.
C36_NoDanglingDownload ==
  \A jobId \in DOMAIN jobs :
    (jobs[jobId].status = "completed" /\ jobs[jobId].downloadUrl # Undef)
      => outputExists(disk, jobId)

\* The temp directory t has a directory called name.
rootIn(t, name) ==
  \E i \in 1..Len(t) : t[i].name = name /\ t[i].isDirectory

\* C37: a sweep pass removes neither the downloads directory nor the
\* processing directory, even when they are empty.
C37_RootsSurvive ==
  [][ev'.op = "sweeptree" =>
       \A name \in {"downloads", "processing"} :
         rootIn(tree, name) => rootIn(tree', name)]_vars

\* C38: after fetchVideoInfo with a URL that fails the hook's validateUrl
\* the hook's error is a message and isLoading is false.
C38_InvalidUrlRecorded ==
  [][(ev'.op = "fetchVideoInfo" /\ ~ ev'.valid)
       => (hook'.error # Undef /\ hook'.isLoading = FALSE)]_vars

\* C39: isProcessing is true exactly while a drain loop is active, that
\* is while a processJob call is awaited; with every queue empty and no
\* Work Item in flight it is false, after a failure as after a success.
C39_FlagConsistency ==
  /\ isProcessing <=> running # {}
  /\ ((\A q \in DOMAIN queues : queues[q] = <<>>) /\ running = {}) => ~ isProcessing

\* The Media Processor's call has just failed (its retry timer is
\* pending), nothing waits and nothing runs: the flag is false.
C39_Witness ==
  /\ timers # {}
  /\ running = {}
  /\ \A q \in DOMAIN queues : queues[q] = <<>>
  /\ ~ isProcessing
  /\ ev.op \in {"internal", "warn"}

\* C40: at most one interval timer is registered and isRunning is true
\* exactly when one is; a start() that finds the service stopped registers
\* one timer due 30 minutes later and runs one sweep at once; a start()
\* that finds it running registers nothing and runs no sweep; the timer's
\* sweeps come every 30 minutes after the start.
C40_TimerLifecycle ==
  /\ [](/\ Cardinality(service.registered) <= 1
        /\ service.isRunning <=> service.registered # {})
  /\ [][/\ (ev'.op = "start" /\ ~ service.isRunning) =>
             /\ service'.registered = {[id |-> service'.intervalId,
                                       due |-> now + 30 * 60 * 1000]}
             /\ ev'.status = "swept"
        /\ (ev'.op = "start" /\ service.isRunning) =>
             /\ service' = service
             /\ tree' = tree
             /\ ev'.status # "swept"
        /\ ev'.op = "interval" =>
             /\ ev'.status = "swept"
             /\ \E k \in 1..4 : now = service.startedAt + k * 30 * 60 * 1000
             /\ \A timer \in service'.registered : timer.due = now + 30 * 60 * 1000
     ]_vars

\* start(), a second start() while running, stop() and start() again
\* have left one timer, the third never registered, and it has fired.
C40_Witness ==
  /\ ev.op = "interval"
  /\ service.isRunning
  /\ service.nextTimer = 3
  /\ service.startedAt > 0
  /\ Cardinality(service.registered) = 1

====
